---- MODULE Spec2Model ----
(***************************************************************************)
(* Model of the shell32 file-system namespace folder (CFSFolder) and its   *)
(* directory enumerator (CFileSysEnum), src/unnamed/part_000.              *)
(*                                                                         *)
(* Strings are sequences of UTF-16 code units (integers).  A DWORD is kept *)
(* as its two 16-bit halves [hi, lo], so that 32-bit wrap-around is exact  *)
(* while every intermediate value stays inside 32-bit signed integers.     *)
(* Bit masks (SFGAO, FILE_ATTRIBUTE, SHCONTF flags) are sets of bit names. *)
(* HRESULTs are signed 32-bit integers: FAILED(hr) is hr < 0.              *)
(***************************************************************************)
EXTENDS Integers, Sequences, FiniteSets, TLC

VARIABLES
    pc,      \* position of the caller: "start" (inputs drawn) or "done"
    args,    \* the arguments of the call under examination
    ret,     \* what the call returned / left in its out parameters
    dir,     \* the file system: the entries of the folder's target directory
             \* (a scan sequence in Spec, [path, wfd] records in SpecRename)
    enum,    \* the enumerator object handed out by EnumObjects
    nmut,    \* number of file-system mutations applied so far
    sink     \* the change notifications sent so far (SHChangeNotify)

vars == <<pc, args, ret, dir, enum, nmut, sink>>

(***************************************************************************)
(* Bounds of the model.                                                    *)
(***************************************************************************)
MaxLParam == 6      \* sort keys 0..MaxLParam are tried (6 is out of range)
MaxNext == 1        \* child identities 0..MaxNext carried after an item
MaxSizeStep == 2    \* file sizes k * 0x60000000 mod 2^32, k in 0..MaxSizeStep
MaxStamp == 2       \* date / time words 1..MaxStamp
MaxDir == 2         \* entries of a directory besides "." and ".."
MaxMut == 2         \* file-system mutations per behaviour
MaxCidl == 2        \* length of the identifier array given to GetAttributesOf

(***************************************************************************)
(* HRESULT values and program constants.                                   *)
(***************************************************************************)
S_OK == 0
S_FALSE == 1
E_INVALIDARG == -2147024809
E_FAIL == -2147467259
GENERICSHELLVIEWCOLUMNS == 6

FAILED(hr) == hr < 0
SUCCEEDED(hr) == hr >= 0

(***************************************************************************)
(* Strings.                                                                *)
(***************************************************************************)
Str_dot == <<46>>
Str_dotdot == <<46, 46>>
Str_lnk == <<108, 110, 107>>
Str_Sub == <<83, 117, 98>>
Str_Doc_txt == <<68, 111, 99, 46, 116, 120, 116>>
Str_Hid == <<72, 105, 100>>
Str_x_LNK == <<120, 46, 76, 78, 75>>
Str_a == <<97>>
Str_Path == <<67, 58, 92, 68>>
Str_A_x == <<65, 46, 120>>
Str_b_X == <<98, 46, 88>>

CharAt(s, i) == IF i <= Len(s) THEN s[i] ELSE 0

towlower(c) == IF c >= 65 /\ c <= 90 THEN c + 32 ELSE c

RECURSIVE StrCmpFrom(_, _, _, _)
StrCmpFrom(s1, s2, i, fold) ==
    LET c1 == IF fold THEN towlower(CharAt(s1, i)) ELSE CharAt(s1, i)
        c2 == IF fold THEN towlower(CharAt(s2, i)) ELSE CharAt(s2, i)
    IN  IF c1 # c2 \/ c1 = 0 THEN c1 - c2 ELSE StrCmpFrom(s1, s2, i + 1, fold)

\* case-insensitive comparison: difference of the first differing folded units
wcsicmp(s1, s2) == StrCmpFrom(s1, s2, 1, TRUE)

\* case-sensitive comparison
strcmpW(s1, s2) == StrCmpFrom(s1, s2, 1, FALSE)

\* lstrcmpiA returns only the sign
lstrcmpiA(s1, s2) ==
    LET d == wcsicmp(s1, s2) IN IF d < 0 THEN -1 ELSE IF d > 0 THEN 1 ELSE 0

\* index of the last '.' of the name, 0 when there is none
LastDot(s) ==
    LET dots == {i \in 1..Len(s) : s[i] = 46}
    IN  IF dots = {} THEN 0 ELSE CHOOSE i \in dots : \A j \in dots : j <= i

\* the extension with its dot, or the empty string at the end of the name
PathFindExtensionW(s) ==
    IF LastDot(s) = 0 THEN <<>> ELSE SubSeq(s, LastDot(s), Len(s))

(***************************************************************************)
(* 32-bit unsigned values as [hi, lo] halves.                              *)
(***************************************************************************)
DW(h, l) == [hi |-> h, lo |-> l]

\* a - b in DWORD arithmetic (modulo 2^32)
DwSub(a, b) ==
    LET borrow == IF a.lo < b.lo THEN 1 ELSE 0
    IN  DW((a.hi - b.hi - borrow) % 65536, (a.lo - b.lo) % 65536)

\* the DWORD converted to int (two's complement)
DwToInt(a) ==
    IF a.hi >= 32768 THEN (a.hi - 65536) * 65536 + a.lo ELSE a.hi * 65536 + a.lo

\* unsigned comparison of two DWORDs: -1, 0, 1
DwCmp(a, b) ==
    IF a.hi # b.hi THEN (IF a.hi < b.hi THEN -1 ELSE 1)
    ELSE IF a.lo # b.lo THEN (IF a.lo < b.lo THEN -1 ELSE 1) ELSE 0

Sign(x) == IF x < 0 THEN -1 ELSE IF x > 0 THEN 1 ELSE 0

(***************************************************************************)
(* Item identifiers (pidls).                                               *)
(***************************************************************************)
PT_FOLDER == "PT_FOLDER"
PT_VALUE == "PT_VALUE"
PT_DRIVE == "PT_DRIVE"
PT_GUID == "PT_GUID"

FILE_ATTRIBUTE_READONLY == "READONLY"
FILE_ATTRIBUTE_HIDDEN == "HIDDEN"
FILE_ATTRIBUTE_SYSTEM == "SYSTEM"
FILE_ATTRIBUTE_DIRECTORY == "DIRECTORY"

\* one item: type tag, name, cached metadata; next is the identity of the
\* identifiers that follow it in a relative list (0: none, the item is simple)
Pidl(t, n, a, s, d, tm, nx) ==
    [type |-> t, name |-> n, attr |-> a, size |-> s, date |-> d, time |-> tm,
     next |-> nx]

_ILIsFolder(pidl) == pidl.type = PT_FOLDER
_ILIsValue(pidl) == pidl.type = PT_VALUE
_ILIsDrive(pidl) == pidl.type = PT_DRIVE

\* the wide-name structure exists only in file-system items
HasFileStructW(pidl) == pidl.type \in {PT_FOLDER, PT_VALUE}

_ILGetFileAttributes(pidl) == pidl.attr

\* a directory-scan record
FindData(n, a, s, d, tm) ==
    [cFileName |-> n, dwFileAttributes |-> a, nFileSize |-> s, date |-> d,
     time |-> tm]

_ILCreateFromFindDataW(wfd) ==
    Pidl(IF FILE_ATTRIBUTE_DIRECTORY \in wfd.dwFileAttributes
            THEN PT_FOLDER ELSE PT_VALUE,
         wfd.cFileName, wfd.dwFileAttributes, wfd.nFileSize, wfd.date,
         wfd.time, 0)

(***************************************************************************)
(* CFSFolder::CompareIDs                                                   *)
(***************************************************************************)
LOWORD(x) == x % 65536

\* the ordering result carried by a success code: negative, zero, positive
MAKE_COMPARE_HRESULT(x) == [hr |-> S_OK, order |-> Sign(x), children |-> FALSE]

\* tie-break on the identifiers that follow the compared items
SHELL32_CompareChildren(lParam, pidl1, pidl2) ==
    [hr |-> S_OK, order |-> Sign(pidl1.next - pidl2.next), children |-> TRUE]

\* the attribute column text of an item: one letter per raw attribute
AttrText(attr) ==
    (IF FILE_ATTRIBUTE_READONLY \in attr THEN <<82>> ELSE <<>>)
    \o (IF FILE_ATTRIBUTE_HIDDEN \in attr THEN <<72>> ELSE <<>>)
    \o (IF FILE_ATTRIBUTE_SYSTEM \in attr THEN <<83>> ELSE <<>>)

\* column 5 is compared on the attribute text of the two items
SHELL32_CompareDetails(lParam, pidl1, pidl2) ==
    [hr |-> S_OK,
     order |-> Sign(wcsicmp(AttrText(pidl1.attr), AttrText(pidl2.attr))),
     children |-> FALSE]

\* the switch of CompareIDs for columns 0..4: the value of `result`
KeyResult(col, pidl1, pidl2) ==
    CASE col = 0 -> wcsicmp(pidl1.name, pidl2.name)
      [] col = 1 -> 0
      [] col = 2 -> wcsicmp(PathFindExtensionW(pidl1.name),
                            PathFindExtensionW(pidl2.name))
      [] col = 3 -> DwToInt(DwSub(pidl1.size, pidl2.size))
      [] col = 4 -> IF pidl1.date - pidl2.date # 0
                       THEN pidl1.date - pidl2.date
                       ELSE pidl1.time - pidl2.time

FolderFirst_Swapped(bIsFolder1) ==
    MAKE_COMPARE_HRESULT(IF bIsFolder1 THEN 1 ELSE -1)

\* folders first: the result when exactly one of the two is a folder
FolderFirst(bIsFolder1) == MAKE_COMPARE_HRESULT(IF bIsFolder1 THEN -1 ELSE 1)

\* the key index tested only for two items of the same kind
CompareArgsInvalid_AfterFolderFirst(lParam, pidl1, pidl2) ==
    \/ ~HasFileStructW(pidl1)
    \/ ~HasFileStructW(pidl2)
    \/ /\ LOWORD(lParam) >= GENERICSHELLVIEWCOLUMNS
       /\ _ILIsFolder(pidl1) = _ILIsFolder(pidl2)

\* !pDataW1 || !pDataW2 || LOWORD(lParam) >= GENERICSHELLVIEWCOLUMNS
CompareArgsInvalid(lParam, pidl1, pidl2) ==
    \/ ~HasFileStructW(pidl1)
    \/ ~HasFileStructW(pidl2)
    \/ LOWORD(lParam) >= GENERICSHELLVIEWCOLUMNS

\* equal keys left equal
CompareTieBreak_Never(result, lParam, pidl1, pidl2) ==
    MAKE_COMPARE_HRESULT(result)

\* what CompareIDs returns after the switch, from the value of `result`
CompareTieBreak(result, lParam, pidl1, pidl2) ==
    IF result = 0
    THEN SHELL32_CompareChildren(lParam, pidl1, pidl2)
    ELSE MAKE_COMPARE_HRESULT(result)

CompareIDs(lParam, pidl1, pidl2) ==
    IF CompareArgsInvalid(lParam, pidl1, pidl2)
    THEN [hr |-> E_INVALIDARG, order |-> 0, children |-> FALSE]
    ELSE IF _ILIsFolder(pidl1) # _ILIsFolder(pidl2)
    THEN FolderFirst(_ILIsFolder(pidl1))
    ELSE IF LOWORD(lParam) = 5
    THEN SHELL32_CompareDetails(lParam, pidl1, pidl2)
    ELSE CompareTieBreak(KeyResult(LOWORD(lParam), pidl1, pidl2),
                         lParam, pidl1, pidl2)

(***************************************************************************)
(* CFileSysEnum::Initialize and CFSFolder::EnumObjects                     *)
(***************************************************************************)
SHCONTF_FOLDERS == "SHCONTF_FOLDERS"
SHCONTF_NONFOLDERS == "SHCONTF_NONFOLDERS"
SHCONTF_INCLUDEHIDDEN == "SHCONTF_INCLUDEHIDDEN"
SHCONTF_ALL == {SHCONTF_FOLDERS, SHCONTF_NONFOLDERS, SHCONTF_INCLUDEHIDDEN}

\* the enumerator's list grows at its tail; the append itself cannot fail here
AddToEnumList(list, pidl) == [ok |-> TRUE, list |-> Append(list, pidl)]

\* the body of the do-loop for one find record: the record is added or not
ScanEntry_NoDotTest(list, stffile, dwFlags) ==
    IF FILE_ATTRIBUTE_HIDDEN \notin stffile.dwFileAttributes
          \/ SHCONTF_INCLUDEHIDDEN \in dwFlags
    THEN IF FILE_ATTRIBUTE_DIRECTORY \in stffile.dwFileAttributes
              /\ SHCONTF_FOLDERS \in dwFlags
         THEN AddToEnumList(list, _ILCreateFromFindDataW(stffile))
         ELSE IF FILE_ATTRIBUTE_DIRECTORY \notin stffile.dwFileAttributes
                   /\ SHCONTF_NONFOLDERS \in dwFlags
         THEN AddToEnumList(list, _ILCreateFromFindDataW(stffile))
         ELSE [ok |-> TRUE, list |-> list]
    ELSE [ok |-> TRUE, list |-> list]

ScanEntry(list, stffile, dwFlags) ==
    IF FILE_ATTRIBUTE_HIDDEN \notin stffile.dwFileAttributes
          \/ SHCONTF_INCLUDEHIDDEN \in dwFlags
    THEN IF FILE_ATTRIBUTE_DIRECTORY \in stffile.dwFileAttributes
              /\ SHCONTF_FOLDERS \in dwFlags
              /\ strcmpW(stffile.cFileName, Str_dot) # 0
              /\ strcmpW(stffile.cFileName, Str_dotdot) # 0
         THEN AddToEnumList(list, _ILCreateFromFindDataW(stffile))
         ELSE IF FILE_ATTRIBUTE_DIRECTORY \notin stffile.dwFileAttributes
                   /\ SHCONTF_NONFOLDERS \in dwFlags
         THEN AddToEnumList(list, _ILCreateFromFindDataW(stffile))
         ELSE [ok |-> TRUE, list |-> list]
    ELSE [ok |-> TRUE, list |-> list]

\* The state of the directory scan as the find calls see it: entries is what
\* the directory holds, openFails says that FindFirstFileW fails, failAt = k > 0
\* says that the FindNextFileW call made after record k fails with an error
\* other than ERROR_NO_MORE_FILES.
Scan(entries, openFails, failAt) ==
    [entries |-> entries, openFails |-> openFails, failAt |-> failAt]

\* the do-loop, from record i on; fetched counts the records the scan produced
RECURSIVE ScanLoop_Prepend(_, _, _, _)
ScanLoop_Prepend(scan, i, dwFlags, list) ==
    LET wfd == scan.entries[i]
        r == ScanEntry(<<>>, wfd, dwFlags)
        l2 == r.list \o list
    IN  IF ~r.ok THEN [succeeded |-> FALSE, list |-> l2, fetched |-> i]
        ELSE IF i = scan.failAt
        THEN [succeeded |-> FALSE, list |-> l2, fetched |-> i]
        ELSE IF i = Len(scan.entries)
        THEN [succeeded |-> TRUE, list |-> l2, fetched |-> i]
        ELSE ScanLoop_Prepend(scan, i + 1, dwFlags, l2)

RECURSIVE ScanLoop(_, _, _, _)
ScanLoop(scan, i, dwFlags, list) ==
    LET r == ScanEntry(list, scan.entries[i], dwFlags)
    IN  IF ~r.ok THEN [succeeded |-> FALSE, list |-> r.list, fetched |-> i]
        ELSE IF i = scan.failAt
        THEN [succeeded |-> FALSE, list |-> r.list, fetched |-> i]
        ELSE IF i = Len(scan.entries)
        THEN [succeeded |-> TRUE, list |-> r.list, fetched |-> i]
        ELSE ScanLoop(scan, i + 1, dwFlags, r.list)

\* a failed FindFirstFileW reported as a failure of the scan
CFileSysEnum_Initialize_OpenChecked(lpszPath, dwFlags, scan) ==
    IF lpszPath = <<>>
    THEN [hr |-> 0, list |-> <<>>, fetched |-> 0]
    ELSE IF scan.openFails
    THEN [hr |-> E_FAIL, list |-> <<>>, fetched |-> 0]
    ELSE IF scan.entries = <<>>
    THEN [hr |-> 1, list |-> <<>>, fetched |-> 0]
    ELSE LET r == ScanLoop(scan, 1, dwFlags, <<>>)
         IN  [hr |-> IF r.succeeded THEN 1 ELSE 0, list |-> r.list,
              fetched |-> r.fetched]

\* CFileSysEnum::Initialize: the BOOL `succeeded` leaves as the HRESULT
CFileSysEnum_Initialize(lpszPath, dwFlags, scan) ==
    IF lpszPath = <<>>
    THEN [hr |-> 0, list |-> <<>>, fetched |-> 0]
    ELSE IF scan.openFails \/ scan.entries = <<>>
    THEN [hr |-> 1, list |-> <<>>, fetched |-> 0]
    ELSE LET r == ScanLoop(scan, 1, dwFlags, <<>>)
         IN  [hr |-> IF r.succeeded THEN 1 ELSE 0, list |-> r.list,
              fetched |-> r.fetched]

\* the object creator: the object is handed out unless Initialize FAILED
ShellObjectCreatorInit(init) ==
    IF FAILED(init.hr)
    THEN [hr |-> init.hr, made |-> FALSE, list |-> <<>>, fetched |-> init.fetched]
    ELSE [hr |-> S_OK, made |-> TRUE, list |-> init.list, fetched |-> init.fetched]

EnumObjects(sPathTarget, dwFlags, scan) ==
    ShellObjectCreatorInit(CFileSysEnum_Initialize(sPathTarget, dwFlags, scan))

\* IEnumIDList::Skip on a fresh enumerator: S_OK when celt items were there
EnumSkip(list, celt) == IF Len(list) >= celt THEN S_OK ELSE S_FALSE

(***************************************************************************)
(* SHELL32_GetFSItemAttributes and CFSFolder::GetAttributesOf              *)
(***************************************************************************)
SFGAO_CANCOPY == "SFGAO_CANCOPY"
SFGAO_CANMOVE == "SFGAO_CANMOVE"
SFGAO_CANLINK == "SFGAO_CANLINK"
SFGAO_CANRENAME == "SFGAO_CANRENAME"
SFGAO_CANDELETE == "SFGAO_CANDELETE"
SFGAO_HASPROPSHEET == "SFGAO_HASPROPSHEET"
SFGAO_DROPTARGET == "SFGAO_DROPTARGET"
SFGAO_FILESYSTEM == "SFGAO_FILESYSTEM"
SFGAO_FOLDER == "SFGAO_FOLDER"
SFGAO_HASSUBFOLDER == "SFGAO_HASSUBFOLDER"
SFGAO_FILESYSANCESTOR == "SFGAO_FILESYSANCESTOR"
SFGAO_STORAGEANCESTOR == "SFGAO_STORAGEANCESTOR"
SFGAO_STORAGE == "SFGAO_STORAGE"
SFGAO_STREAM == "SFGAO_STREAM"
SFGAO_HIDDEN == "SFGAO_HIDDEN"
SFGAO_READONLY == "SFGAO_READONLY"
SFGAO_LINK == "SFGAO_LINK"
SFGAO_VALIDATE == "SFGAO_VALIDATE"
\* the bits of the 32-bit mask that this folder never names
SFGAO_OTHER == "SFGAO_OTHER"

SFGAO_COMMON ==
    {SFGAO_CANCOPY, SFGAO_CANMOVE, SFGAO_CANLINK, SFGAO_CANRENAME,
     SFGAO_CANDELETE, SFGAO_HASPROPSHEET, SFGAO_DROPTARGET, SFGAO_FILESYSTEM}

SFGAO_FOLDERBITS ==
    {SFGAO_FOLDER, SFGAO_HASSUBFOLDER, SFGAO_FILESYSANCESTOR,
     SFGAO_STORAGEANCESTOR, SFGAO_STORAGE}

\* ~0: every bit of the mask
SFGAO_ALLBITS ==
    SFGAO_COMMON \cup SFGAO_FOLDERBITS
    \cup {SFGAO_STREAM, SFGAO_HIDDEN, SFGAO_READONLY, SFGAO_LINK,
          SFGAO_VALIDATE, SFGAO_OTHER}

\* the extension of the item's name without its dot; ok is FALSE without one
_ILGetExtension(pidl) ==
    LET e == PathFindExtensionW(pidl.name)
    IN  IF e = <<>> THEN [ok |-> FALSE, ext |-> <<>>]
        ELSE [ok |-> TRUE, ext |-> Tail(e)]

\* What the has-subfolder probe meets: the result of binding to the item and
\* the entries of the directory the bound folder scans.
ProbeEnv(bindHr, kids) == [bindHr |-> bindHr, kids |-> kids]

\* bind to the item, enumerate its folders, advance one step
HasSubfolderProbe(env) ==
    /\ SUCCEEDED(env.bindHr)
    /\ LET e == EnumObjects(Str_Path, {SHCONTF_FOLDERS}, Scan(env.kids, FALSE, 0))
       IN  SUCCEEDED(e.hr) /\ EnumSkip(e.list, 1) = S_OK

\* the attribute bits derived from the raw file attributes
FSItemAttributes_NoHidden(dwFileAttributes) ==
    SFGAO_COMMON
    \cup (IF FILE_ATTRIBUTE_DIRECTORY \in dwFileAttributes
             THEN SFGAO_FOLDERBITS ELSE {SFGAO_STREAM})
    \cup (IF FILE_ATTRIBUTE_READONLY \in dwFileAttributes
             THEN {SFGAO_READONLY} ELSE {})

FSItemAttributes(dwFileAttributes) ==
    SFGAO_COMMON
    \cup (IF FILE_ATTRIBUTE_DIRECTORY \in dwFileAttributes
             THEN SFGAO_FOLDERBITS ELSE {SFGAO_STREAM})
    \cup (IF FILE_ATTRIBUTE_HIDDEN \in dwFileAttributes
             THEN {SFGAO_HIDDEN} ELSE {})
    \cup (IF FILE_ATTRIBUTE_READONLY \in dwFileAttributes
             THEN {SFGAO_READONLY} ELSE {})

\* the link bit: asked for, and the extension is "lnk"
FSItemLink_Unasked(pidl, dwIn) ==
    IF _ILGetExtension(pidl).ok
          /\ lstrcmpiA(_ILGetExtension(pidl).ext, Str_lnk) = 0
    THEN {SFGAO_LINK} ELSE {}

FSItemLink(pidl, dwIn) ==
    IF SFGAO_LINK \in dwIn
    THEN IF _ILGetExtension(pidl).ok
              /\ lstrcmpiA(_ILGetExtension(pidl).ext, Str_lnk) = 0
         THEN {SFGAO_LINK} ELSE {}
    ELSE {}

\* the has-subfolder bit added when it is asked for and the probe succeeds
FSItemHasSubfolder(dwIn, env) ==
    IF SFGAO_HASSUBFOLDER \in dwIn
    THEN IF HasSubfolderProbe(env) THEN {SFGAO_HASSUBFOLDER} ELSE {}
    ELSE {}

\* SHELL32_GetFSItemAttributes: the value left in *pdwAttributes
SHELL32_GetFSItemAttributes(pidl, dwIn, env) ==
    IF ~_ILIsFolder(pidl) /\ ~_ILIsValue(pidl)
    THEN [hr |-> S_OK, out |-> dwIn \cap {SFGAO_CANLINK}]
    ELSE [hr |-> S_OK,
          out |-> FSItemAttributes(_ILGetFileAttributes(pidl))
                  \cup FSItemLink(pidl, dwIn)
                  \cup FSItemHasSubfolder(dwIn, env)]

\* one element of the array: a NULL pointer, or an item and what its probe meets
Elem(isNull, pidl, env) == [null |-> isNull, pidl |-> pidl, env |-> env]

\* the while loop over the array, from element i on
RECURSIVE AttrLoop(_, _, _)
AttrLoop(apidl, i, rgf) ==
    IF i > Len(apidl) THEN rgf
    ELSE IF apidl[i].null THEN rgf
    ELSE IF _ILIsFolder(apidl[i].pidl) \/ _ILIsValue(apidl[i].pidl)
    THEN AttrLoop(apidl, i + 1,
                  SHELL32_GetFSItemAttributes(apidl[i].pidl, rgf,
                                              apidl[i].env).out)
    ELSE AttrLoop(apidl, i + 1, rgf)

\* the cidl = 0 branch: the attributes of the folder itself
RootAttributes(root, rgf) ==
    IF _ILIsFolder(root.pidl) \/ _ILIsValue(root.pidl)
    THEN [hr |-> S_OK,
          out |-> SHELL32_GetFSItemAttributes(root.pidl, rgf, root.env).out]
    ELSE IF _ILIsDrive(root.pidl)
    THEN IF SUCCEEDED(root.bindParentHr)
         THEN [hr |-> root.parentHr, out |-> root.parentOut]
         ELSE [hr |-> root.bindParentHr, out |-> rgf]
    ELSE [hr |-> S_OK, out |-> rgf]

\* the final statement: SFGAO_VALIDATE is cleared
ClearValidate_Keep(rgf) == rgf

ClearValidate(rgf) == rgf \ {SFGAO_VALIDATE}

\* CFSFolder::GetAttributesOf; out is the value of *rgfInOut on return
\* ("none" when the caller gave no in/out parameter)
GetAttributesOf(a) ==
    IF a.rgfNull THEN [hr |-> E_INVALIDARG, out |-> "none"]
    ELSE IF a.cidl # 0 /\ a.apidlNull
    THEN [hr |-> E_INVALIDARG, out |-> a.rgfInOut]
    ELSE LET rgf0 == IF a.rgfInOut = {} THEN SFGAO_ALLBITS ELSE a.rgfInOut
             r == IF a.cidl = 0
                  THEN RootAttributes(a.root, rgf0)
                  ELSE [hr |-> S_OK, out |-> AttrLoop(a.apidl, 1, rgf0)]
         IN  [hr |-> r.hr, out |-> ClearValidate(r.out)]

(***************************************************************************)
(* Sample identifiers: a base item and items that differ from it in one    *)
(* field, for each of the two file-system kinds, and one foreign item.     *)
(***************************************************************************)
SizeSample(k) == DW((k * 24576) % 65536, 0)

SampleNames == {Str_a, Str_A_x, Str_b_X}
SampleSizes == {SizeSample(k) : k \in 0..MaxSizeStep}
SampleStamps == 1..MaxStamp

BasePidl(t) ==
    Pidl(t, Str_a,
         IF t = PT_FOLDER THEN {FILE_ATTRIBUTE_DIRECTORY} ELSE {},
         SizeSample(0), 1, 1, 0)

FsPidlsOf(t) ==
    {[BasePidl(t) EXCEPT !.name = n] : n \in SampleNames}
    \cup {[BasePidl(t) EXCEPT !.size = s] : s \in SampleSizes}
    \cup {[BasePidl(t) EXCEPT !.date = d] : d \in SampleStamps}
    \cup {[BasePidl(t) EXCEPT !.time = tm] : tm \in SampleStamps}
    \cup {[BasePidl(t) EXCEPT !.next = nx] : nx \in 0..MaxNext}
    \cup {[BasePidl(t) EXCEPT !.attr = @ \cup {FILE_ATTRIBUTE_HIDDEN}]}

FsPidls == FsPidlsOf(PT_FOLDER) \cup FsPidlsOf(PT_VALUE)

ForeignPidl == Pidl(PT_GUID, <<>>, {}, DW(0, 0), 0, 0, 0)

CmpPidls == FsPidls \cup {ForeignPidl}

NoEnum == [called |-> FALSE, made |-> FALSE]

(***************************************************************************)
(* Specification of the comparator: the inputs are drawn in the initial    *)
(* state, the call compares the three identifiers pairwise.                *)
(***************************************************************************)
\* the sort keys: the column in the low word, with and without bits set
\* in the high word
CmpKeys == 0..MaxLParam \cup {65536 + k : k \in {1, MaxLParam}}

InitCmp ==
    /\ pc = "start"
    /\ args \in [op : {"CompareIDs"}, lParam : CmpKeys,
                 pidl1 : CmpPidls, pidl2 : CmpPidls, pidl3 : FsPidls]
    /\ ret = [op |-> "none"]
    /\ dir = <<>>
    /\ enum = NoEnum
    /\ nmut = 0
    /\ sink = <<>>

CompareIDsCall ==
    /\ pc = "start"
    /\ args.op = "CompareIDs"
    /\ ret' = [op |-> "CompareIDs",
               r12 |-> CompareIDs(args.lParam, args.pidl1, args.pidl2),
               r21 |-> CompareIDs(args.lParam, args.pidl2, args.pidl1),
               r23 |-> CompareIDs(args.lParam, args.pidl2, args.pidl3),
               r13 |-> CompareIDs(args.lParam, args.pidl1, args.pidl3)]
    /\ pc' = "done"
    /\ UNCHANGED <<args, dir, enum, nmut, sink>>

NextCmp == CompareIDsCall

SpecCmp == InitCmp /\ [][NextCmp]_vars

CompareDone == pc = "done" /\ ret.op = "CompareIDs"

BothFs == HasFileStructW(args.pidl1) /\ HasFileStructW(args.pidl2)

ValidKey == LOWORD(args.lParam) < GENERICSHELLVIEWCOLUMNS

\* C1: under a fixed valid sort key CompareIDs is a strict weak ordering of
\* file-system identifiers: Compare(a,b) and Compare(b,a) have opposite
\* signs, and Compare(a,b) < 0 and Compare(b,c) < 0 imply Compare(a,c) < 0.
C1_StrictWeakOrder ==
    (CompareDone /\ BothFs /\ ValidKey) =>
        /\ ret.r12.order = -(ret.r21.order)
        /\ (ret.r12.order < 0 /\ ret.r23.order < 0) => ret.r13.order < 0

\* C2: for every recognised key, when exactly one of the two file-system
\* identifiers is a folder the result is negative if the first is the folder
\* and positive if the second is.
C2_FolderFirst ==
    (CompareDone /\ BothFs /\ ValidKey
        /\ _ILIsFolder(args.pidl1) # _ILIsFolder(args.pidl2)) =>
        /\ ret.r12.hr = S_OK
        /\ ret.r12.order = (IF _ILIsFolder(args.pidl1) THEN -1 ELSE 1)
        /\ ret.r21.order = (IF _ILIsFolder(args.pidl1) THEN 1 ELSE -1)

C2_Witness ==
    /\ CompareDone /\ BothFs
    /\ args.lParam = 3
    /\ _ILIsFolder(args.pidl1) /\ ~_ILIsFolder(args.pidl2)
    /\ DwCmp(args.pidl1.size, args.pidl2.size) > 0
    /\ ret.r12.order = -1

SameKind == _ILIsFolder(args.pidl1) = _ILIsFolder(args.pidl2)

CmpColumn == LOWORD(args.lParam)

\* the comparison of two unsigned size values, and of two stamps by date
\* first and by time when the dates are equal: -1, 0, 1
NumericOrder(col, pidl1, pidl2) ==
    IF col = 3 THEN DwCmp(pidl1.size, pidl2.size)
    ELSE IF pidl1.date # pidl2.date
    THEN (IF pidl1.date < pidl2.date THEN -1 ELSE 1)
    ELSE IF pidl1.time # pidl2.time
    THEN (IF pidl1.time < pidl2.time THEN -1 ELSE 1)
    ELSE 0

\* C26: under the size and modified-time keys, for two identifiers of the
\* same kind, the key result has the sign of the numeric comparison of the
\* key values (sizes as unsigned 32-bit values; date first, time only when
\* the dates are equal), and is zero, handing over to the child comparison,
\* only when the values are equal.
C26_NumericKeySign ==
    (CompareDone /\ BothFs /\ SameKind /\ CmpColumn \in {3, 4}) =>
        LET expected == NumericOrder(CmpColumn, args.pidl1, args.pidl2)
        IN  /\ Sign(KeyResult(CmpColumn, args.pidl1, args.pidl2)) = expected
            /\ expected # 0 => ret.r12.order = expected /\ ~ret.r12.children
            /\ expected = 0 => ret.r12.children

LowerStr(s) == [i \in 1..Len(s) |-> towlower(s[i])]

\* the key values of the two items are equal
KeysEqual(col, pidl1, pidl2) ==
    CASE col = 0 -> LowerStr(pidl1.name) = LowerStr(pidl2.name)
      [] col = 1 -> TRUE
      [] col = 2 -> LowerStr(PathFindExtensionW(pidl1.name))
                       = LowerStr(PathFindExtensionW(pidl2.name))
      [] col = 3 -> pidl1.size = pidl2.size
      [] col = 4 -> pidl1.date = pidl2.date /\ pidl1.time = pidl2.time

\* C27: for keys 0..4, when the key values of two items of the same kind
\* are equal (always for the comment key) CompareIDs returns what
\* SHELL32_CompareChildren returns; when they differ the result does not
\* come from it; for the attributes key it is never consulted.
C27_TieBreakByChildren ==
    (CompareDone /\ BothFs /\ SameKind /\ ValidKey) =>
        /\ CmpColumn \in 0..4 =>
              IF KeysEqual(CmpColumn, args.pidl1, args.pidl2)
              THEN ret.r12 = SHELL32_CompareChildren(args.lParam, args.pidl1,
                                                     args.pidl2)
              ELSE ~ret.r12.children /\ ret.r12.order # 0
        /\ CmpColumn = 1 => ret.r12.children
        /\ CmpColumn = 5 => ~ret.r12.children

\* two files of equal size under the size key, told apart by the
\* identifiers that follow them
C27_Witness ==
    /\ CompareDone /\ BothFs /\ SameKind
    /\ CmpColumn = 3
    /\ args.pidl1.size = args.pidl2.size
    /\ args.pidl1.next < args.pidl2.next
    /\ ret.r12.children
    /\ ret.r12.order = -1

\* C28: CompareIDs returns E_INVALIDARG whenever the low word of the key
\* is 6 or more, whatever the two identifiers are; no order is produced
\* even when exactly one of them is a folder.
C28_InvalidKey ==
    (CompareDone /\ CmpColumn >= GENERICSHELLVIEWCOLUMNS) =>
        /\ ret.r12.hr = E_INVALIDARG /\ ret.r12.order = 0
        /\ ret.r21.hr = E_INVALIDARG /\ ret.r21.order = 0
        /\ ret.r23.hr = E_INVALIDARG
        /\ ret.r13.hr = E_INVALIDARG

\* key 6 with bits in the high word, a folder against a file
C28_Witness ==
    /\ CompareDone /\ BothFs
    /\ args.lParam = 65536 + MaxLParam
    /\ CmpColumn = GENERICSHELLVIEWCOLUMNS
    /\ _ILIsFolder(args.pidl1) /\ ~_ILIsFolder(args.pidl2)
    /\ ret.r12.hr = E_INVALIDARG

(***************************************************************************)
(* The folder's target directory and its enumeration.                      *)
(***************************************************************************)
DotEntry == FindData(Str_dot, {FILE_ATTRIBUTE_DIRECTORY}, DW(0, 0), 1, 1)
DotDotEntry == FindData(Str_dotdot, {FILE_ATTRIBUTE_DIRECTORY}, DW(0, 0), 1, 1)

FindDataSamples ==
    {FindData(Str_Sub, {FILE_ATTRIBUTE_DIRECTORY}, DW(0, 0), 1, 1),
     FindData(Str_Doc_txt, {}, DW(0, 10), 1, 2),
     FindData(Str_Hid, {FILE_ATTRIBUTE_DIRECTORY, FILE_ATTRIBUTE_HIDDEN},
              DW(0, 0), 2, 1),
     FindData(Str_x_LNK, {FILE_ATTRIBUTE_HIDDEN}, DW(0, 1), 2, 2)}

SampleFileNames == {wfd.cFileName : wfd \in FindDataSamples}

NameInDir(d, n) == \E i \in 1..Len(d) : wcsicmp(d[i].cFileName, n) = 0

RECURSIVE SeqsUpTo(_, _)
SeqsUpTo(S, n) ==
    IF n = 0 THEN {<<>>}
    ELSE LET shorter == SeqsUpTo(S, n - 1)
         IN  shorter \cup {Append(q, x) : q \in shorter, x \in S}

DistinctNames(d) ==
    \A i, j \in 1..Len(d) : i # j => wcsicmp(d[i].cFileName, d[j].cFileName) # 0

\* a directory lists "." and ".." first, then its files
InitDirs ==
    {<<DotEntry, DotDotEntry>> \o q :
        q \in {r \in SeqsUpTo(FindDataSamples, MaxDir) : DistinctNames(r)}}

Init ==
    /\ pc = "idle"
    /\ args = [op |-> "none"]
    /\ ret = [op |-> "none"]
    /\ dir \in InitDirs
    /\ enum = NoEnum
    /\ nmut = 0
    /\ sink = <<>>

\* CFSFolder::EnumObjects on the folder: the whole scan runs inside the call
EnumObjectsCall ==
    /\ ~enum.called
    /\ \E dwFlags \in SUBSET SHCONTF_ALL, sPathTarget \in {<<>>, Str_Path},
          openFails \in BOOLEAN, failAt \in 0..Len(dir) :
          /\ openFails => failAt = 0
          /\ sPathTarget = <<>> => (~openFails /\ failAt = 0)
          /\ LET r == EnumObjects(sPathTarget, dwFlags,
                                  Scan(dir, openFails, failAt))
             IN  enum' = [called |-> TRUE, made |-> r.made, hr |-> r.hr,
                          list |-> r.list, dwFlags |-> dwFlags,
                          scanned |-> SubSeq(dir, 1, r.fetched),
                          openFailed |-> (openFails /\ sPathTarget # <<>>),
                          nextFailed |-> (failAt # 0 /\ r.fetched = failAt
                                            /\ sPathTarget # <<>>)]
    /\ UNCHANGED <<pc, args, ret, dir, nmut, sink>>

\* another process creates a file or directory in the target directory
FsCreate ==
    /\ nmut < MaxMut
    /\ Len(dir) - 2 < MaxDir
    /\ \E wfd \in FindDataSamples :
          /\ ~NameInDir(dir, wfd.cFileName)
          /\ dir' = Append(dir, wfd)
    /\ nmut' = nmut + 1
    /\ UNCHANGED <<pc, args, ret, enum, sink>>

\* an entry other than "." and ".." is deleted
FsDelete ==
    /\ nmut < MaxMut
    /\ \E i \in 3..Len(dir) :
          dir' = SubSeq(dir, 1, i - 1) \o SubSeq(dir, i + 1, Len(dir))
    /\ nmut' = nmut + 1
    /\ UNCHANGED <<pc, args, ret, enum, sink>>

\* an entry is renamed to a name that is free
FsRename ==
    /\ nmut < MaxMut
    /\ \E i \in 3..Len(dir), n \in SampleFileNames :
          /\ ~NameInDir(dir, n)
          /\ dir' = [dir EXCEPT ![i].cFileName = n]
    /\ nmut' = nmut + 1
    /\ UNCHANGED <<pc, args, ret, enum, sink>>

Next == EnumObjectsCall \/ FsCreate \/ FsDelete \/ FsRename

Spec == Init /\ [][Next]_vars

\* the entries the content mask asks for
Wanted(e, dwFlags) ==
    /\ (FILE_ATTRIBUTE_HIDDEN \notin e.dwFileAttributes
          \/ SHCONTF_INCLUDEHIDDEN \in dwFlags)
    /\ \/ /\ FILE_ATTRIBUTE_DIRECTORY \in e.dwFileAttributes
          /\ SHCONTF_FOLDERS \in dwFlags
          /\ e.cFileName # Str_dot /\ e.cFileName # Str_dotdot
       \/ /\ FILE_ATTRIBUTE_DIRECTORY \notin e.dwFileAttributes
          /\ SHCONTF_NONFOLDERS \in dwFlags

RECURSIVE WantedOf(_, _)
WantedOf(entries, dwFlags) ==
    IF entries = <<>> THEN <<>>
    ELSE (IF Wanted(Head(entries), dwFlags)
             THEN <<_ILCreateFromFindDataW(Head(entries))>> ELSE <<>>)
         \o WantedOf(Tail(entries), dwFlags)

C9_ScanFailureFails ==
    (enum.called /\ enum.nextFailed) => (FAILED(enum.hr) /\ ~enum.made)

IsPrefix(p, q) == Len(p) <= Len(q) /\ SubSeq(q, 1, Len(p)) = p

C30_OpenFailureEmpty ==
    (enum.called /\ enum.openFailed) =>
        /\ enum.made
        /\ enum.hr = S_OK
        /\ enum.list = <<>>
        /\ enum.scanned = <<>>
        /\ ~enum.nextFailed
        /\ LET e == EnumObjects(Str_Path, enum.dwFlags,
                                Scan(<<DotEntry, DotDotEntry>>, FALSE, 0))
           IN  /\ e.made = enum.made
               /\ e.hr = enum.hr
               /\ e.list = enum.list

\* a directory with a file and a folder in it that cannot be opened, all
\* content asked for
C30_Witness ==
    /\ enum.called /\ enum.openFailed
    /\ Len(dir) = 4
    /\ enum.dwFlags = SHCONTF_ALL
    /\ WantedOf(dir, enum.dwFlags) # <<>>
    /\ enum.made
    /\ enum.list = <<>>

(***************************************************************************)
(* Specification of the attribute query: the arguments, the folder's own   *)
(* identifier and what the probes meet are drawn in the initial state.     *)
(***************************************************************************)
AttrPidls ==
    {Pidl(PT_FOLDER, Str_Sub, {FILE_ATTRIBUTE_DIRECTORY}, DW(0, 0), 1, 1, 0),
     Pidl(PT_FOLDER, Str_Hid,
          {FILE_ATTRIBUTE_DIRECTORY, FILE_ATTRIBUTE_HIDDEN,
           FILE_ATTRIBUTE_READONLY}, DW(0, 0), 1, 1, 0),
     Pidl(PT_FOLDER, Str_x_LNK, {}, DW(0, 0), 1, 1, 0),
     Pidl(PT_VALUE, Str_x_LNK, {FILE_ATTRIBUTE_HIDDEN}, DW(0, 1), 1, 1, 0),
     Pidl(PT_VALUE, Str_Doc_txt, {FILE_ATTRIBUTE_READONLY}, DW(0, 10), 1, 1, 0),
     ForeignPidl}

KidSamples ==
    {<<>>,
     <<DotEntry, DotDotEntry>>,
     <<DotEntry, DotDotEntry,
       FindData(Str_Doc_txt, {}, DW(0, 10), 1, 2)>>,
     <<DotEntry, DotDotEntry,
       FindData(Str_Sub, {FILE_ATTRIBUTE_DIRECTORY}, DW(0, 0), 1, 1)>>}

ProbeEnvs ==
    {ProbeEnv(E_FAIL, <<>>)} \cup {ProbeEnv(S_OK, k) : k \in KidSamples}

NoProbe == ProbeEnv(E_FAIL, <<>>)

Elems ==
    {Elem(TRUE, ForeignPidl, NoProbe)}
    \cup {Elem(FALSE, p, e) : p \in AttrPidls, e \in ProbeEnvs}

RequestBits == {SFGAO_CANCOPY, SFGAO_LINK, SFGAO_HASSUBFOLDER, SFGAO_VALIDATE}

RequestMasks == (SUBSET RequestBits) \cup {SFGAO_ALLBITS}

DrivePidl == Pidl(PT_DRIVE, <<67, 58, 92>>, {}, DW(0, 0), 0, 0, 0)

NoRoot ==
    [pidl |-> ForeignPidl, env |-> NoProbe, bindParentHr |-> S_OK,
     parentHr |-> S_OK, parentOut |-> {}]

\* the folder's own last identifier, and for a drive what its parent answers
Roots ==
    {[NoRoot EXCEPT !.pidl = p, !.env = e] :
        p \in AttrPidls, e \in {NoProbe, ProbeEnv(S_OK, <<DotEntry, DotDotEntry>>)}}
    \cup {[NoRoot EXCEPT !.pidl = DrivePidl, !.bindParentHr = b,
                         !.parentHr = h, !.parentOut = o] :
            b \in {S_OK, E_FAIL}, h \in {S_OK, E_FAIL},
            o \in {{SFGAO_FILESYSTEM}, SFGAO_ALLBITS}}

AttrArgs ==
    \* no in/out parameter
    {[op |-> "GetAttributesOf", rgfNull |-> TRUE, rgfInOut |-> {}, cidl |-> 0,
      apidlNull |-> TRUE, apidl |-> <<>>, root |-> NoRoot]}
    \* a count with no array
    \cup {[op |-> "GetAttributesOf", rgfNull |-> FALSE, rgfInOut |-> m,
           cidl |-> n, apidlNull |-> TRUE, apidl |-> <<>>, root |-> NoRoot] :
            m \in RequestMasks, n \in 1..MaxCidl}
    \* the folder itself
    \cup {[op |-> "GetAttributesOf", rgfNull |-> FALSE, rgfInOut |-> m,
           cidl |-> 0, apidlNull |-> nl, apidl |-> <<>>, root |-> r] :
            m \in RequestMasks, nl \in BOOLEAN, r \in Roots}
    \* an array of items
    \cup {[op |-> "GetAttributesOf", rgfNull |-> FALSE, rgfInOut |-> m,
           cidl |-> Len(q), apidlNull |-> FALSE, apidl |-> q, root |-> NoRoot] :
            m \in RequestMasks, q \in SeqsUpTo(Elems, MaxCidl) \ {<<>>}}

InitAttr ==
    /\ pc = "start"
    /\ args \in AttrArgs
    /\ ret = [op |-> "none"]
    /\ dir = <<>>
    /\ enum = NoEnum
    /\ nmut = 0
    /\ sink = <<>>

GetAttributesOfCall ==
    /\ pc = "start"
    /\ args.op = "GetAttributesOf"
    /\ ret' = [op |-> "GetAttributesOf"] @@ GetAttributesOf(args)
    /\ pc' = "done"
    /\ UNCHANGED <<args, dir, enum, nmut, sink>>

NextAttr == GetAttributesOfCall

SpecAttr == InitAttr /\ [][NextAttr]_vars

AttrDone == pc = "done" /\ ret.op = "GetAttributesOf"

\* the call got past the argument checks and worked on one file-system item
OneFsItem ==
    /\ AttrDone /\ ~args.rgfNull /\ ~args.apidlNull
    /\ args.cidl = 1 /\ ~args.apidl[1].null
    /\ HasFileStructW(args.apidl[1].pidl)

\* the mask the classifier works from: 0 stands for every bit
Requested == IF args.rgfInOut = {} THEN SFGAO_ALLBITS ELSE args.rgfInOut

\* the call got past its argument checks
ArgsAccepted == ~args.rgfNull /\ ~(args.cidl # 0 /\ args.apidlNull)

\* C3 as claimed: whatever the input and whatever the result code, the mask
\* left in the in/out parameter has SFGAO_VALIDATE clear.
C3_ValidateClearAlways ==
    (AttrDone /\ ~args.rgfNull) => SFGAO_VALIDATE \notin ret.out

\* C3 as amended: once the call is past its argument checks, the mask left in
\* the in/out parameter has SFGAO_VALIDATE clear, whatever the result code.
C3_ValidateClear ==
    (AttrDone /\ ArgsAccepted) => SFGAO_VALIDATE \notin ret.out

C3_Witness ==
    /\ AttrDone /\ ArgsAccepted
    /\ args.cidl = 0 /\ _ILIsDrive(args.root.pidl)
    /\ SFGAO_VALIDATE \in args.root.parentOut
    /\ FAILED(ret.hr)
    /\ SFGAO_VALIDATE \notin ret.out

\* the call worked on an array in which every element is a file-system item
AllFsItems ==
    /\ AttrDone /\ ArgsAccepted /\ args.cidl > 0
    /\ \A i \in 1..Len(args.apidl) :
          ~args.apidl[i].null /\ HasFileStructW(args.apidl[i].pidl)

\* C4: for a request other than the all-bits sentinel the result is the
\* intersection of the request with what every supplied identifier supports:
\* no bit absent from the request, no bit that one of the identifiers lacks.
C4_Intersection ==
    (AllFsItems /\ args.rgfInOut \notin {{}, SFGAO_ALLBITS}) =>
        /\ ret.out \subseteq args.rgfInOut
        /\ \A i \in 1..Len(args.apidl) :
              ret.out \subseteq
                 SHELL32_GetFSItemAttributes(args.apidl[i].pidl, SFGAO_ALLBITS,
                                             args.apidl[i].env).out

\* C5: when has-subfolder is asked for a folder, the bit is in the result
\* only if the probe found at least one folder child.
C5_HasSubfolderOnlyIfProbed ==
    (OneFsItem /\ SFGAO_HASSUBFOLDER \in Requested
        /\ FILE_ATTRIBUTE_DIRECTORY \in args.apidl[1].pidl.attr
        /\ SFGAO_HASSUBFOLDER \in ret.out) =>
        /\ SUCCEEDED(args.apidl[1].env.bindHr)
        /\ \E k \in 1..Len(args.apidl[1].env.kids) :
              Wanted(args.apidl[1].env.kids[k], {SHCONTF_FOLDERS})

\* the name ends in ".lnk", whatever the case of its letters
EndsInDotLnk(n) ==
    /\ Len(n) >= 4
    /\ n[Len(n) - 3] = 46
    /\ towlower(n[Len(n) - 2]) = 108
    /\ towlower(n[Len(n) - 1]) = 110
    /\ towlower(n[Len(n)]) = 107

\* C6: the link bit is in the result for an identifier exactly when the link
\* bit was asked for and the extension of its name is "lnk" in any case.
C6_LinkBit ==
    OneFsItem =>
        (SFGAO_LINK \in ret.out <=>
            (SFGAO_LINK \in Requested /\ EndsInDotLnk(args.apidl[1].pidl.name)))

C6_Witness ==
    /\ OneFsItem
    /\ args.rgfInOut = {SFGAO_LINK}
    /\ args.apidl[1].pidl.name = Str_x_LNK
    /\ _ILIsValue(args.apidl[1].pidl)
    /\ SFGAO_LINK \in ret.out

\* C7: the container, ancestor and storage bits are in the result exactly
\* when the raw directory attribute is set and the stream bit exactly when it
\* is not; the hidden and read-only bits follow the raw hidden and read-only
\* attributes.
C7_ClassifierBits ==
    OneFsItem =>
        LET fa == args.apidl[1].pidl.attr
            isDir == FILE_ATTRIBUTE_DIRECTORY \in fa
        IN  /\ \A b \in {SFGAO_FOLDER, SFGAO_FILESYSANCESTOR,
                         SFGAO_STORAGEANCESTOR, SFGAO_STORAGE} :
                  b \in ret.out <=> isDir
            /\ SFGAO_STREAM \in ret.out <=> ~isDir
            /\ SFGAO_HIDDEN \in ret.out <=> FILE_ATTRIBUTE_HIDDEN \in fa
            /\ SFGAO_READONLY \in ret.out <=> FILE_ATTRIBUTE_READONLY \in fa

C7_Witness ==
    /\ OneFsItem
    /\ args.apidl[1].pidl.attr =
          {FILE_ATTRIBUTE_DIRECTORY, FILE_ATTRIBUTE_HIDDEN,
           FILE_ATTRIBUTE_READONLY}
    /\ {SFGAO_FOLDER, SFGAO_HIDDEN, SFGAO_READONLY} \subseteq ret.out
    /\ SFGAO_STREAM \notin ret.out

(***************************************************************************)
(* Result codes, paths and class identities used by ParseDisplayName,      *)
(* BindToObject, GetDisplayNameOf and SetNameOf.                           *)
(***************************************************************************)
ERROR_SUCCESS == 0
ERROR_FILE_NOT_FOUND == 2
ERROR_ACCESS_DENIED == 5

\* a Win32 error code as a failure HRESULT (0x80070000 + x in 32 bits)
HRESULT_FROM_WIN32(x) == IF x <= 0 THEN x ELSE x - 2147024896

E_ACCESSDENIED == -2147024891
E_OUTOFMEMORY == -2147024882
CO_E_CLASSSTRING == -2147221005

IsSeparator(c) == c = 92

PathAddBackslashW(s) ==
    IF Len(s) > 0 /\ ~IsSeparator(s[Len(s)]) THEN Append(s, 92) ELSE s

\* a path that starts with a separator or with a drive letter and a colon
PathIsRooted(s) ==
    \/ Len(s) >= 1 /\ IsSeparator(s[1])
    \/ Len(s) >= 2 /\ s[2] = 58

\* directory joined with a file name; a rooted file name stands alone
PathCombineW(pszDir, pszFile) ==
    IF PathIsRooted(pszFile) THEN pszFile
    ELSE IF pszFile = <<>> THEN pszDir
    ELSE PathAddBackslashW(pszDir) \o pszFile

CLSID_ShellFSFolder == "CLSID_ShellFSFolder"
CLSID_Custom == "CLSID_Custom"      \* a class named by some desktop.ini
CLSID_Handler == "CLSID_Handler"    \* a class registered for a file type

\* an identifier list given to a call: a null pointer, or a list of items
\* (the empty list is the zero-length identifier)
NullList == [null |-> TRUE, list |-> <<>>]
List(items) == [null |-> FALSE, list |-> items]

\* the folder object: its root list (present or not) and its target path
Folder(hasRoot, path) == [hasRoot |-> hasRoot, sPathTarget |-> path]

\* a namespace object made by the binder
NoObject == [made |-> FALSE, clsid |-> "", target |-> <<>>]
Object(clsid, target) == [made |-> TRUE, clsid |-> clsid, target |-> target]

(***************************************************************************)
(* The type registry: OpenKeyFromFileType and GetCLSIDForFileType.         *)
(* reg describes the registry: extKey (HKCR\<ext>\CLSID opens), progId     *)
(* (HKCR\<ext> names a ProgID), progKey (HKCR\<ProgID>\CLSID opens),       *)
(* valueRes (result of reading the key's value), blocked (the value is on  *)
(* the Blocked list), clsidHr (result of CLSIDFromString on the value).    *)
(***************************************************************************)
OpenKeyFromFileType(pidl, reg) ==
    IF ~_ILIsValue(pidl) THEN FALSE
    ELSE IF ~HasFileStructW(pidl) THEN FALSE
    ELSE IF PathFindExtensionW(pidl.name) = <<>> THEN FALSE
    ELSE IF reg.extKey THEN TRUE
    ELSE IF ~reg.progId THEN FALSE
    ELSE reg.progKey

\* the deny-list test left out: a blocked class is handed to the binder
GetCLSIDForFileType_NoBlocked(pidl, reg) ==
    IF ~OpenKeyFromFileType(pidl, reg) THEN [hr |-> S_FALSE, clsid |-> ""]
    ELSE IF reg.valueRes # ERROR_SUCCESS THEN [hr |-> S_FALSE, clsid |-> ""]
    ELSE IF FAILED(reg.clsidHr) THEN [hr |-> reg.clsidHr, clsid |-> ""]
    ELSE [hr |-> S_OK, clsid |-> CLSID_Handler]

GetCLSIDForFileType(pidl, reg) ==
    IF ~OpenKeyFromFileType(pidl, reg) THEN [hr |-> S_FALSE, clsid |-> ""]
    ELSE IF reg.valueRes # ERROR_SUCCESS THEN [hr |-> S_FALSE, clsid |-> ""]
    ELSE IF reg.blocked THEN [hr |-> E_ACCESSDENIED, clsid |-> ""]
    ELSE IF FAILED(reg.clsidHr) THEN [hr |-> reg.clsidHr, clsid |-> ""]
    ELSE [hr |-> S_OK, clsid |-> CLSID_Handler]

(***************************************************************************)
(* The per-directory override: SHELL32_GetCLSIDForDirectory.               *)
(* ini is the state of <dir>\desktop.ini: "missing", "unreadable",         *)
(* "noclsid" (no CLSID entry in [.ShellClassInfo]) or the class it names.  *)
(***************************************************************************)
IniStates == {"missing", "unreadable", "noclsid", CLSID_Custom}

\* the value read, the default "" when there is none
GetPrivateProfileStringW(ini) ==
    IF ini \in {"missing", "unreadable", "noclsid"} THEN "" ELSE ini

SHELL32_GetCLSIDForDirectory(ini, clsidFolder) ==
    IF GetPrivateProfileStringW(ini) # ""
        THEN GetPrivateProfileStringW(ini)   \* CLSIDFromString of the value
        ELSE clsidFolder

(***************************************************************************)
(* CFSFolder::BindToObject                                                 *)
(* a: [ppvOutNull, pidl]; env: [ini, reg, binderHr].                       *)
(* The result records the HRESULT, what *ppvOut holds ("written" tells     *)
(* whether the call assigned it at all) and which collaborators were used. *)
(***************************************************************************)
BindResult(hr, written, out, iniRead, regRead, binderCalled, clsid) ==
    [hr |-> hr, written |-> written, out |-> out, iniRead |-> iniRead,
     regRead |-> regRead, binderCalled |-> binderCalled, clsid |-> clsid]

\* the binder: makes the child object of the given class at the target path
SHELL32_BindToSF(pfti, clsid, binderHr) ==
    [hr |-> binderHr,
     out |-> IF SUCCEEDED(binderHr) THEN Object(clsid, pfti) ELSE NoObject]

\* the root-list test left out
BindArgsInvalid_NoRootTest(self, a) ==
    a.ppvOutNull \/ a.pidl.null \/ Len(a.pidl.list) = 0

BindArgsInvalid(self, a) ==
    ~self.hasRoot \/ a.ppvOutNull \/ a.pidl.null \/ Len(a.pidl.list) = 0

\* the override consulted for every folder
BindNeedsOverride_Always(pidl) == TRUE

BindNeedsOverride(pidl) ==
    pidl.attr \cap {FILE_ATTRIBUTE_SYSTEM, FILE_ATTRIBUTE_READONLY} # {}

\* the target path of the child: the item's name alone
BindTargetPath_NameOnly(self, pidl) == pidl.name

\* pfti.szTargetParsingName: the folder's path joined with the item's name
BindTargetPath(self, pidl) == PathCombineW(self.sPathTarget, pidl.name)

BindToObject(self, a, env) ==
    IF BindArgsInvalid(self, a)
    THEN BindResult(E_INVALIDARG, FALSE, NoObject, FALSE, FALSE, FALSE, "")
    ELSE LET pidl == a.pidl.list[1] IN
    IF ~HasFileStructW(pidl)
    THEN BindResult(E_INVALIDARG, FALSE, NoObject, FALSE, FALSE, FALSE, "")
    ELSE
    LET target == BindTargetPath(self, pidl)
        bound(clsid, iniRead, regRead) ==
            LET b == SHELL32_BindToSF(target, clsid, env.binderHr)
            IN  BindResult(IF FAILED(b.hr) THEN b.hr ELSE S_OK, TRUE, b.out,
                           iniRead, regRead, TRUE, clsid)
    IN  IF _ILIsFolder(pidl)
        THEN IF BindNeedsOverride(pidl)
             THEN bound(SHELL32_GetCLSIDForDirectory(env.ini,
                                                     CLSID_ShellFSFolder),
                        TRUE, FALSE)
             ELSE bound(CLSID_ShellFSFolder, FALSE, FALSE)
        ELSE LET r == GetCLSIDForFileType(pidl, env.reg)
             IN  IF r.hr = S_FALSE
                 THEN BindResult(HRESULT_FROM_WIN32(ERROR_FILE_NOT_FOUND),
                                 TRUE, NoObject, FALSE, TRUE, FALSE, "")
                 ELSE IF r.hr # S_OK
                 THEN BindResult(r.hr, TRUE, NoObject, FALSE, TRUE, FALSE, "")
                 ELSE bound(r.clsid, FALSE, TRUE)

(***************************************************************************)
(* Specification of one BindToObject call: Init draws the folder, the      *)
(* arguments and the state of the override file, the type registry and the *)
(* binder; the action makes the call.                                      *)
(***************************************************************************)
Str_NoExt == <<82, 69, 65, 68, 77, 69>>        \* "README"

BindPidls ==
    { Pidl(PT_FOLDER, Str_Sub, {FILE_ATTRIBUTE_DIRECTORY} \cup extra,
           DW(0, 0), 1, 1, 0) :
        extra \in {{}, {FILE_ATTRIBUTE_READONLY}, {FILE_ATTRIBUTE_SYSTEM},
                   {FILE_ATTRIBUTE_HIDDEN}} }
    \cup { Pidl(PT_VALUE, n, {}, DW(0, 10), 1, 1, 0) :
             n \in {Str_Doc_txt, Str_NoExt} }
    \cup { Pidl(PT_VALUE, Str_Doc_txt, {FILE_ATTRIBUTE_READONLY}, DW(0, 10),
                1, 1, 0),
           ForeignPidl }

BindLists ==
    {NullList, List(<<>>)} \cup {List(<<p>>) : p \in BindPidls}

Registries ==
    [extKey : BOOLEAN, progId : BOOLEAN, progKey : BOOLEAN,
     valueRes : {ERROR_SUCCESS, ERROR_FILE_NOT_FOUND, ERROR_ACCESS_DENIED},
     blocked : BOOLEAN, clsidHr : {S_OK, CO_E_CLASSSTRING}]

BindEnvs == [ini : IniStates, reg : Registries, binderHr : {S_OK, E_FAIL}]

BindArgs ==
    [op : {"BindToObject"}, self : {Folder(h, Str_Path) : h \in BOOLEAN},
     ppvOutNull : BOOLEAN, pidl : BindLists, env : BindEnvs]

InitBind ==
    /\ pc = "start"
    /\ args \in BindArgs
    /\ ret = [op |-> "none"]
    /\ dir = <<>>
    /\ enum = NoEnum
    /\ nmut = 0
    /\ sink = <<>>

BindToObjectCall ==
    /\ pc = "start"
    /\ args.op = "BindToObject"
    /\ pc' = "done"
    /\ ret' = [op |-> "BindToObject",
               r |-> BindToObject(args.self, args, args.env)]
    /\ UNCHANGED <<args, dir, enum, nmut, sink>>

NextBind == BindToObjectCall

SpecBind == InitBind /\ [][NextBind]_vars

BindDone == pc = "done" /\ ret.op = "BindToObject"

\* the call is given a non-empty list whose first item is a file-system item
BindOfFsItem ==
    /\ BindDone
    /\ args.self.hasRoot /\ ~args.ppvOutNull
    /\ ~args.pidl.null /\ Len(args.pidl.list) > 0
    /\ HasFileStructW(args.pidl.list[1])

HR_NotFound == HRESULT_FROM_WIN32(ERROR_FILE_NOT_FOUND)

\* C15: Bind of a folder item without the system and read-only attributes
\* asks the binder for CLSID_ShellFSFolder and does not read the override;
\* Bind of a folder item with one of these attributes reads the override and
\* still asks for CLSID_ShellFSFolder when the override file is missing,
\* unreadable or has no class entry; Bind of a non-folder item never reads
\* the override and hands the binder only the class found by the type
\* registry.
C15_BindRouting ==
    BindOfFsItem =>
        LET pidl == args.pidl.list[1]
            marked == pidl.attr \cap {FILE_ATTRIBUTE_SYSTEM,
                                      FILE_ATTRIBUTE_READONLY} # {}
            r == ret.r
        IN  /\ _ILIsFolder(pidl) /\ ~marked =>
                  /\ ~r.iniRead /\ ~r.regRead
                  /\ r.binderCalled /\ r.clsid = CLSID_ShellFSFolder
                  /\ r.out.made => r.out.clsid = CLSID_ShellFSFolder
            /\ _ILIsFolder(pidl) /\ marked =>
                  /\ r.iniRead /\ ~r.regRead /\ r.binderCalled
                  /\ args.env.ini \in {"missing", "unreadable", "noclsid"}
                        => r.clsid = CLSID_ShellFSFolder
                  /\ args.env.ini = CLSID_Custom => r.clsid = CLSID_Custom
            /\ ~_ILIsFolder(pidl) =>
                  /\ ~r.iniRead /\ r.regRead
                  /\ r.binderCalled => r.clsid = CLSID_Handler
                  /\ r.out.made => r.out.clsid = CLSID_Handler

C15_Witness ==
    /\ BindOfFsItem
    /\ _ILIsFolder(args.pidl.list[1])
    /\ FILE_ATTRIBUTE_READONLY \in args.pidl.list[1].attr
    /\ args.env.ini = "noclsid"
    /\ ret.r.iniRead
    /\ ret.r.out = Object(CLSID_ShellFSFolder, PathCombineW(Str_Path, Str_Sub))

\* the registry has no usable handler entry for the item's extension
NoHandlerEntry(pidl, reg) ==
    \/ PathFindExtensionW(pidl.name) = <<>>
    \/ ~reg.extKey /\ ~(reg.progId /\ reg.progKey)
    \/ reg.valueRes # ERROR_SUCCESS

C17_BindInvalidArgs ==
    BindDone /\ (~args.self.hasRoot \/ args.pidl.null
                   \/ Len(args.pidl.list) = 0) =>
        /\ ret.r.hr = E_INVALIDARG
        /\ ~ret.r.iniRead /\ ~ret.r.regRead /\ ~ret.r.binderCalled

C17_Witness ==
    /\ BindDone
    /\ ~args.self.hasRoot /\ ~args.ppvOutNull
    /\ ~args.pidl.null /\ Len(args.pidl.list) = 1
    /\ _ILIsFolder(args.pidl.list[1])
    /\ FILE_ATTRIBUTE_SYSTEM \in args.pidl.list[1].attr
    /\ args.env.ini = CLSID_Custom
    /\ ret.r.hr = E_INVALIDARG
    /\ ~ret.r.iniRead

(***************************************************************************)
(* CFSFolder::ParseDisplayName                                             *)
(*                                                                         *)
(* The file system is a set of [path, wfd] records, one per existing file  *)
(* or directory.  The bind context pbc is a null pointer or an object      *)
(* whose k-th consultation (GetObjectParam, GetFindData) yields find data  *)
(* or fails: calls[k].has.  The result carries a log with one record per   *)
(* path element processed: the element, whether the bind context and the   *)
(* file system were asked, the result code and the type of the item made.  *)
(***************************************************************************)
MaxBindData == 3    \* consultations of the bind context that are described

NullText == [null |-> TRUE, s |-> <<>>]
Text(s) == [null |-> FALSE, s |-> s]

\* index of the first separator of s, 0 when there is none
FirstSeparator(s) ==
    LET seps == {i \in 1..Len(s) : IsSeparator(s[i])}
    IN  IF seps = {} THEN 0 ELSE CHOOSE i \in seps : \A j \in seps : i <= j

\* the first path element and the text after its separator (a null pointer
\* when the element ends the string)
GetNextElementW(pszNext) ==
    LET i == FirstSeparator(pszNext)
    IN  IF i = 0 THEN [elem |-> pszNext, next |-> NullText]
        ELSE [elem |-> SubSeq(pszNext, 1, i - 1),
              next |-> Text(SubSeq(pszNext, i + 1, Len(pszNext)))]

FsEntry(path, wfd) == [path |-> path, wfd |-> wfd]

\* FindFirstFileW on a full path: names match without regard to case
FindFirstFileW(fs, szPath) == {e \in fs : wcsicmp(e.path, szPath) = 0}

_ILCreateFromPathW(fs, szPath) ==
    IF FindFirstFileW(fs, szPath) = {}
    THEN [hr |-> HRESULT_FROM_WIN32(ERROR_FILE_NOT_FOUND), pidl |-> NullList]
    ELSE [hr |-> S_OK,
          pidl |-> List(<<_ILCreateFromFindDataW(
                      (CHOOSE e \in FindFirstFileW(fs, szPath) : TRUE).wfd)>>)]

NullBindCtx == [null |-> TRUE, calls |-> <<>>]
NoFindData == [has |-> FALSE, wfd |-> FindData(<<>>, {}, DW(0, 0), 0, 0)]
BindData(wfd) == [has |-> TRUE, wfd |-> wfd]

\* k: the number of this consultation of pbc
SHELL32_CreatePidlFromBindCtx(pbc, k, path) ==
    IF pbc.null THEN NullList
    ELSE IF k > Len(pbc.calls) THEN NullList
    ELSE IF ~pbc.calls[k].has THEN NullList
    ELSE List(<<_ILCreateFromFindDataW(
                  [pbc.calls[k].wfd EXCEPT !.cFileName = path])>>)

\* the item synthesized from the bind context always made a folder
ParseForceFolder_Always(pidl, szNext) == [pidl EXCEPT !.type = PT_FOLDER]

\* the item synthesized from the bind context kept as the find data say
ParseForceFolder_Never(pidl, szNext) == pidl

\* abID[0] = PT_FOLDER when a separator followed the element
ParseForceFolder(pidl, szNext) ==
    IF ~szNext.null THEN [pidl EXCEPT !.type = PT_FOLDER] ELSE pidl

\* *pchEaten left alone
ParseEaten_Untouched(pchEatenGiven) == [written |-> FALSE, value |-> 0]

\* if (pchEaten) *pchEaten = 0
ParseEaten(pchEatenGiven) == [written |-> pchEatenGiven, value |-> 0]

\* whatever pidlTemp holds is handed out
ParseFinish_Partial(hr, pidlTemp) == pidlTemp

\* *ppidl on return: pidlTemp on success, NULL on failure
ParseFinish(hr, pidlTemp) == IF SUCCEEDED(hr) THEN pidlTemp ELSE NullList

Segment(elem, bcAsked, fsAsked, hr, type) ==
    [elem |-> elem, bcAsked |-> bcAsked, fsAsked |-> fsAsked, hr |-> hr,
     type |-> type]

ParseResult(hr, ppidlWritten, ppidl, eaten, attrs, log) ==
    [hr |-> hr, ppidlWritten |-> ppidlWritten, ppidl |-> ppidl,
     eaten |-> eaten, attrs |-> attrs, log |-> log]

NotEaten == [written |-> FALSE, value |-> 0]

RECURSIVE ParseDisplayName(_, _, _, _)
RECURSIVE SHELL32_ParseNextElement(_, _, _, _, _, _)

\* binds the child named by pidlIn and lets it parse szNext; a child of
\* another class answers env.foreignHr.  What a failing call leaves in
\* *pidlInOut is env.keepOnFail: the item it was given, or NULL.
SHELL32_ParseNextElement(self, a, env, pidlIn, szNext, k) ==
    LET b == BindToObject(self, [ppvOutNull |-> FALSE, pidl |-> pidlIn],
                          env.bind)
        left == IF env.keepOnFail THEN pidlIn ELSE NullList
    IN  IF ~b.out.made
        THEN [hr |-> b.hr, pidl |-> left, attrs |-> a.attrs, log |-> <<>>]
        ELSE IF b.out.clsid # CLSID_ShellFSFolder
        THEN [hr |-> env.foreignHr,
              pidl |-> IF SUCCEEDED(env.foreignHr)
                          THEN List(pidlIn.list \o <<ForeignPidl>>) ELSE left,
              attrs |-> a.attrs, log |-> <<>>]
        ELSE LET c == ParseDisplayName(Folder(TRUE, b.out.target),
                                       [a EXCEPT !.text = szNext,
                                                 !.ppidlNull = FALSE],
                                       env, k)
             IN  [hr |-> c.hr,
                  pidl |-> IF SUCCEEDED(c.hr)
                              THEN List(pidlIn.list \o c.ppidl.list)
                              ELSE left,
                  attrs |-> c.attrs, log |-> c.log]

\* a: [ppidlNull, text, pchEatenGiven, attrs, pbc]; attrs is [null, mask];
\* env: [fs, bind, foreignHr, keepOnFail]; k: consultations of pbc so far
ParseDisplayName(self, a, env, k) ==
    IF a.ppidlNull
    THEN ParseResult(E_INVALIDARG, FALSE, NullList, NotEaten, a.attrs, <<>>)
    ELSE IF a.text.null
    THEN ParseResult(E_INVALIDARG, TRUE, NullList, NotEaten, a.attrs, <<>>)
    ELSE IF a.text.s = <<>>
    THEN ParseResult(E_INVALIDARG, TRUE, ParseFinish(E_INVALIDARG, NullList),
                     ParseEaten(a.pchEatenGiven), a.attrs, <<>>)
    ELSE
    LET g == GetNextElementW(a.text.s)
        fromBc == SHELL32_CreatePidlFromBindCtx(a.pbc, k + 1, g.elem)
        k2 == IF a.pbc.null THEN k ELSE k + 1
        szPath == PathAddBackslashW(self.sPathTarget) \o g.elem
        fromFs == _ILCreateFromPathW(env.fs, szPath)
        hr1 == IF ~fromBc.null THEN S_OK ELSE fromFs.hr
        pidl1 == IF ~fromBc.null
                    THEN List(<<ParseForceFolder(fromBc.list[1], g.next)>>)
                    ELSE fromFs.pidl
        seg == Segment(g.elem, ~a.pbc.null, fromBc.null, hr1,
                       IF pidl1.null THEN "" ELSE pidl1.list[1].type)
        done(hr, pidlTemp, attrs, log) ==
            ParseResult(hr, TRUE, ParseFinish(hr, pidlTemp),
                        ParseEaten(a.pchEatenGiven), attrs, log)
    IN  IF FAILED(hr1) THEN done(hr1, pidl1, a.attrs, <<seg>>)
        ELSE IF ~g.next.null /\ g.next.s # <<>>
        THEN LET n == SHELL32_ParseNextElement(self, a, env, pidl1, g.next, k2)
             IN  done(n.hr, n.pidl, n.attrs, <<seg>> \o n.log)
        ELSE IF ~a.attrs.null /\ a.attrs.mask # {}
        THEN LET t == SHELL32_GetFSItemAttributes(pidl1.list[1], a.attrs.mask,
                                                  NoProbe)
             IN  done(t.hr, pidl1, [null |-> FALSE, mask |-> t.out], <<seg>>)
        ELSE done(hr1, pidl1, a.attrs, <<seg>>)

(***************************************************************************)
(* Specification of one ParseDisplayName call on the folder at Str_Path,   *)
(* followed by the caller binding the identifiers returned one after       *)
(* another.  Init draws the text, the bind context, the file system and    *)
(* the state of the collaborators.                                         *)
(***************************************************************************)
Str_A == <<65>>
Str_B == <<66>>
Str_C == <<67>>
Str_Z == <<90>>

\* the elements joined with separators
RECURSIVE JoinPath(_)
JoinPath(elems) ==
    IF Len(elems) = 0 THEN <<>>
    ELSE IF Len(elems) = 1 THEN elems[1]
    ELSE elems[1] \o <<92>> \o JoinPath(Tail(elems))

Under(elems) == PathCombineW(Str_Path, JoinPath(elems))

DirData(n, extra) ==
    FindData(n, {FILE_ATTRIBUTE_DIRECTORY} \cup extra, DW(0, 0), 1, 1)
FileData(n) == FindData(n, {}, DW(0, 10), 1, 1)

\* C:\D with A, A\B, A\B\C (directories), A\Doc.txt and Doc.txt (files),
\* Sub (read-only directory) and Sub\B
FsFull ==
    { FsEntry(Under(<<Str_A>>), DirData(Str_A, {})),
      FsEntry(Under(<<Str_A, Str_B>>), DirData(Str_B, {})),
      FsEntry(Under(<<Str_A, Str_B, Str_C>>), DirData(Str_C, {})),
      FsEntry(Under(<<Str_A, Str_Doc_txt>>), FileData(Str_Doc_txt)),
      FsEntry(Under(<<Str_Doc_txt>>), FileData(Str_Doc_txt)),
      FsEntry(Under(<<Str_Sub>>), DirData(Str_Sub, {FILE_ATTRIBUTE_READONLY})),
      FsEntry(Under(<<Str_Sub, Str_B>>), DirData(Str_B, {})) }

\* C:\D with the directory A alone
FsOnlyA == { FsEntry(Under(<<Str_A>>), DirData(Str_A, {})) }

ParseTexts ==
    {NullText, Text(<<>>)}
    \cup { Text(JoinPath(e)) :
             e \in { <<Str_A>>, <<Str_a, <<98>>>>, <<Str_A, Str_B, Str_C>>,
                     <<Str_A, <<>>>>, <<Str_A, Str_Doc_txt>>, <<Str_Z>>,
                     <<Str_A, Str_Z, Str_C>>, <<Str_Doc_txt, Str_B>>,
                     <<Str_Sub, Str_B>> } }

\* what a consultation of the bind context yields: nothing, or the find
\* data of a file
BindDataSamples == {NoFindData, BindData(FileData(<<>>))}

BindContexts ==
    {NullBindCtx}
    \cup { [null |-> FALSE, calls |-> c] :
             c \in [1..MaxBindData -> BindDataSamples] }

\* registries with no handler, a handler, and a blocked handler for .txt
RegNone ==
    [extKey |-> FALSE, progId |-> FALSE, progKey |-> FALSE,
     valueRes |-> ERROR_SUCCESS, blocked |-> FALSE, clsidHr |-> S_OK]
RegHandler == [RegNone EXCEPT !.extKey = TRUE]
RegBlocked == [RegHandler EXCEPT !.blocked = TRUE]

ParseEnvs ==
    [fs : {FsFull, FsOnlyA},
     bind : [ini : {"missing", CLSID_Custom},
             reg : {RegNone, RegHandler, RegBlocked},
             binderHr : {S_OK, E_FAIL}],
     foreignHr : {S_OK, E_FAIL},
     keepOnFail : BOOLEAN]

AttrRequests ==
    {[null |-> TRUE, mask |-> {}], [null |-> FALSE, mask |-> {SFGAO_FOLDER}]}

ParseArgs ==
    [op : {"ParseDisplayName"}, ppidlNull : {FALSE}, text : ParseTexts,
     pchEatenGiven : BOOLEAN, attrs : AttrRequests, pbc : BindContexts,
     env : ParseEnvs]
    \cup
    [op : {"ParseDisplayName"}, ppidlNull : {TRUE}, text : ParseTexts,
     pchEatenGiven : {TRUE}, attrs : {[null |-> TRUE, mask |-> {}]},
     pbc : {NullBindCtx},
     env : {e \in ParseEnvs : e.fs = FsFull /\ e.bind.binderHr = S_OK
                               /\ e.bind.reg = RegNone /\ ~e.keepOnFail}]

\* the caller binds the items of a list one after another, each in the
\* object made by the bind before it; a child of another class ends the walk
RECURSIVE BindChain(_, _, _, _)
BindChain(folder, items, i, bindEnv) ==
    IF i > Len(items)
    THEN [hr |-> S_OK, target |-> folder.sPathTarget, bound |-> i - 1,
          foreign |-> FALSE]
    ELSE LET b == BindToObject(folder, [ppvOutNull |-> FALSE,
                                        pidl |-> List(<<items[i]>>)], bindEnv)
         IN  IF ~b.out.made
             THEN [hr |-> b.hr, target |-> <<>>, bound |-> i - 1,
                   foreign |-> FALSE]
             ELSE IF b.out.clsid # CLSID_ShellFSFolder
             THEN [hr |-> S_OK, target |-> b.out.target, bound |-> i,
                   foreign |-> TRUE]
             ELSE BindChain(Folder(TRUE, b.out.target), items, i + 1, bindEnv)

InitParse ==
    /\ pc = "start"
    /\ args \in ParseArgs
    /\ ret = [op |-> "none"]
    /\ dir = <<>>
    /\ enum = NoEnum
    /\ nmut = 0
    /\ sink = <<>>

ParseDisplayNameCall ==
    /\ pc = "start"
    /\ args.op = "ParseDisplayName"
    /\ pc' = "done"
    /\ LET r == ParseDisplayName(Folder(TRUE, Str_Path), args, args.env, 0)
       IN  ret' = [op |-> "ParseDisplayName", r |-> r,
                   chain |-> BindChain(Folder(TRUE, Str_Path), r.ppidl.list,
                                       1, args.env.bind)]
    /\ UNCHANGED <<args, dir, enum, nmut, sink>>

NextParse == ParseDisplayNameCall

SpecParse == InitParse /\ [][NextParse]_vars

ParseDone == pc = "done" /\ ret.op = "ParseDisplayName"

\* the path elements of a text, in order
RECURSIVE TextElements(_)
TextElements(s) ==
    LET g == GetNextElementW(s)
    IN  IF g.next.null THEN <<g.elem>> ELSE <<g.elem>> \o TextElements(g.next.s)

ParseElems == IF args.text.null THEN <<>> ELSE TextElements(args.text.s)

\* the bind context yields find data at its i-th consultation
Supplied(i) ==
    ~args.pbc.null /\ i <= Len(args.pbc.calls) /\ args.pbc.calls[i].has

\* the path of the first i elements exists in the file system
ExistsUpTo(i) ==
    FindFirstFileW(args.env.fs, Under(SubSeq(ParseElems, 1, i))) # {}

\* C11: Parse of a null text returns InvalidArgument and a null list; Parse
\* of the empty string returns InvalidArgument and a null list and sets the
\* characters-consumed output, when one is given, to 0; in both cases
\* neither the file system nor the bind context is consulted.
C11_ParseNullOrEmpty ==
    ParseDone /\ ~args.ppidlNull =>
        /\ args.text.null =>
              /\ ret.r.hr = E_INVALIDARG
              /\ ret.r.ppidlWritten /\ ret.r.ppidl = NullList
              /\ ret.r.log = <<>>
        /\ ~args.text.null /\ args.text.s = <<>> =>
              /\ ret.r.hr = E_INVALIDARG
              /\ ret.r.ppidlWritten /\ ret.r.ppidl = NullList
              /\ args.pchEatenGiven =>
                    ret.r.eaten.written /\ ret.r.eaten.value = 0
              /\ ret.r.log = <<>>

C11_Witness ==
    /\ ParseDone /\ ~args.ppidlNull
    /\ ~args.text.null /\ args.text.s = <<>>
    /\ args.pchEatenGiven
    /\ Supplied(1)
    /\ args.env.fs = FsFull
    /\ ret.r.hr = E_INVALIDARG
    /\ ret.r.eaten = [written |-> TRUE, value |-> 0]

\* C12: an element for which the bind context yields find data is made
\* into an identifier without asking the file system, and its type is
\* forced to folder when further elements remain; an element for which it
\* yields none and that does not exist fails the parse with NotFound and a
\* null list.  For A\B\C with A existing, B absent but supplied and C absent
\* and not supplied, B is made as a folder and the parse fails with NotFound
\* at C.
C12_BindCtxSynthesis ==
    ParseDone =>
        /\ \A i \in 1..Len(ret.r.log) :
              LET sg == ret.r.log[i]
                  more == \E j \in (i + 1)..Len(ParseElems) :
                              ParseElems[j] # <<>>
              IN  /\ sg.elem = ParseElems[i]
                  /\ Supplied(i) =>
                        /\ ~sg.fsAsked /\ sg.hr = S_OK
                        /\ more => sg.type = PT_FOLDER
                  /\ ~Supplied(i) /\ ~ExistsUpTo(i) =>
                        /\ sg.fsAsked
                        /\ sg.hr = HR_NotFound
                        /\ ret.r.hr = HR_NotFound
                        /\ ret.r.ppidl = NullList
                        /\ i = Len(ret.r.log)
        /\ ( /\ args.text = Text(JoinPath(<<Str_A, Str_B, Str_C>>))
             /\ args.env.fs = FsOnlyA
             /\ Supplied(2) /\ ~Supplied(1) /\ ~Supplied(3)
             /\ args.env.bind.binderHr = S_OK )
           => /\ Len(ret.r.log) = 3
              /\ ret.r.log[2].type = PT_FOLDER /\ ~ret.r.log[2].fsAsked
              /\ ret.r.log[3].hr = HR_NotFound
              /\ ret.r.hr = HR_NotFound /\ ret.r.ppidl = NullList

C12_Witness ==
    /\ ParseDone
    /\ args.text = Text(JoinPath(<<Str_A, Str_B, Str_C>>))
    /\ args.env.fs = FsOnlyA
    /\ Supplied(2) /\ ~Supplied(1) /\ ~Supplied(3)
    /\ Len(ret.r.log) = 3
    /\ ret.r.log[2].type = PT_FOLDER
    /\ ret.r.hr = HR_NotFound

\* C13: whenever Parse returns a failure the list handed out is null, and
\* every element processed before the last one processed had succeeded (no
\* element is processed after a failing one).
C13_FailureNullList ==
    ParseDone /\ ~args.ppidlNull /\ FAILED(ret.r.hr) =>
        /\ ret.r.ppidlWritten /\ ret.r.ppidl = NullList
        /\ \A i \in 1..(Len(ret.r.log) - 1) : SUCCEEDED(ret.r.log[i].hr)
        /\ \A i \in 1..Len(ret.r.log) :
              FAILED(ret.r.log[i].hr) => ret.r.hr = ret.r.log[i].hr

C13_Witness ==
    /\ ParseDone /\ ~args.ppidlNull
    /\ args.text = Text(JoinPath(<<Str_Doc_txt, Str_B>>))
    /\ args.env.fs = FsFull
    /\ args.env.keepOnFail
    /\ args.pbc.null
    /\ Len(ret.r.log) = 1 /\ ret.r.log[1].hr = S_OK
    /\ FAILED(ret.r.hr)
    /\ ret.r.ppidl = NullList

\* a path of two or more non-empty elements that exists, parsed without a
\* bind context
ValidExistingPath ==
    /\ ParseDone /\ ~args.ppidlNull
    /\ args.pbc.null
    /\ Len(ParseElems) >= 2
    /\ \A i \in 1..Len(ParseElems) : ParseElems[i] # <<>>
    /\ ExistsUpTo(Len(ParseElems))

OnePerSegment ==
    /\ ret.r.hr = S_OK
    /\ ~ret.r.ppidl.null
    /\ Len(ret.r.ppidl.list) = Len(ParseElems)
    /\ \A i \in 1..Len(ParseElems) :
          wcsicmp(ret.r.ppidl.list[i].name, ParseElems[i]) = 0

BindsReachTarget ==
    /\ ret.chain.hr = S_OK
    /\ ret.chain.bound = Len(ParseElems)
    /\ wcsicmp(ret.chain.target, Under(ParseElems)) = 0

\* C14 as stated: for every valid multi-element path P that exists under R,
\* parsed with no bind context, Parse yields one identifier per element and
\* binding them one after another ends at an object whose target path is R
\* joined with P.
C14_ParseBindRoundTrip ==
    ValidExistingPath => OnePerSegment /\ BindsReachTarget

\* some directory on the path is handed to another class by its desktop.ini
RoutedAway ==
    /\ args.env.bind.ini = CLSID_Custom
    /\ \E i \in 1..Len(ParseElems) :
          \E e \in FindFirstFileW(args.env.fs,
                                  Under(SubSeq(ParseElems, 1, i))) :
              /\ FILE_ATTRIBUTE_DIRECTORY \in e.wfd.dwFileAttributes
              /\ e.wfd.dwFileAttributes \cap {FILE_ATTRIBUTE_SYSTEM,
                                              FILE_ATTRIBUTE_READONLY} # {}

LeafIsFolder ==
    \E e \in FindFirstFileW(args.env.fs, Under(ParseElems)) :
        FILE_ATTRIBUTE_DIRECTORY \in e.wfd.dwFileAttributes

\* C14: for every such path, while the binder makes the objects asked of it
\* and no directory on the path is handed to another class, Parse yields one
\* identifier per element in order; binding them one after another ends at
\* the object whose target path is R joined with P when the last element is
\* a folder or a file whose type has a usable handler, and fails at the last
\* identifier, with NotFound when no handler is registered and AccessDenied
\* when it is blocked, when the last element is a file without one.
C14_ParseBindFolders ==
    ValidExistingPath /\ args.env.bind.binderHr = S_OK /\ ~RoutedAway =>
        /\ OnePerSegment
        /\ LeafIsFolder \/ args.env.bind.reg = RegHandler => BindsReachTarget
        /\ ~LeafIsFolder /\ args.env.bind.reg # RegHandler =>
              /\ ret.chain.bound = Len(ParseElems) - 1
              /\ args.env.bind.reg = RegNone => ret.chain.hr = HR_NotFound
              /\ args.env.bind.reg = RegBlocked =>
                    ret.chain.hr = E_ACCESSDENIED

C14_Witness ==
    /\ ValidExistingPath
    /\ args.text = Text(JoinPath(<<Str_a, <<98>>>>))
    /\ args.env.fs = FsFull
    /\ Len(ret.r.ppidl.list) = 2
    /\ ret.r.ppidl.list[2].name = Str_B
    /\ ret.chain.bound = 2
    /\ ret.chain.target = Under(<<Str_A, Str_B>>)

\* the type byte the identifier of the i-th element had when the codec made
\* it, from the find data of the bind context or of the file system
CreatedType(i) ==
    IF Supplied(i)
    THEN _ILCreateFromFindDataW(args.pbc.calls[i].wfd).type
    ELSE LET made == _ILCreateFromPathW(args.env.fs,
                                        Under(SubSeq(ParseElems, 1, i)))
         IN  IF made.pidl.null THEN "" ELSE made.pidl.list[1].type

\* C24 (as stated): the type byte of an identifier is never written after
\* the identifier has been made: every identifier Parse handles still has
\* the type it was made with.
C24_KindImmutable ==
    ParseDone =>
        \A i \in 1..Len(ret.r.log) :
            ret.r.log[i].hr = S_OK => ret.r.log[i].type = CreatedType(i)

\* C24 (amended): the only write to the type byte of an identifier that
\* has been made is in Parse, which sets it to folder on an identifier it
\* has just made from the find data of the bind context when a separator
\* follows the element; identifiers made from the file system keep their
\* type, and the identifiers handed out carry the types so fixed.
C24_KindWrittenOnlyByForce ==
    ParseDone =>
        \A i \in 1..Len(ret.r.log) :
            LET sg == ret.r.log[i]
            IN  sg.hr = S_OK =>
                  /\ sg.type # CreatedType(i) =>
                        /\ Supplied(i)
                        /\ i < Len(ParseElems)
                        /\ sg.type = PT_FOLDER
                  /\ Supplied(i) /\ i < Len(ParseElems) => sg.type = PT_FOLDER
                  /\ SUCCEEDED(ret.r.hr) => ret.r.ppidl.list[i].type = sg.type

\* A\Doc.txt with file find data supplied for A: the identifier of A is
\* made as a file and handed out as a folder
C24_Witness ==
    /\ ParseDone
    /\ args.text = Text(JoinPath(<<Str_A, Str_Doc_txt>>))
    /\ Supplied(1)
    /\ CreatedType(1) = PT_VALUE
    /\ ret.r.hr = S_OK
    /\ Len(ret.r.ppidl.list) = 2
    /\ ret.r.ppidl.list[1].type = PT_FOLDER

(***************************************************************************)
(* CFSFolder::GetDisplayNameOf                                             *)
(* dwFlags is a set of SHGDN bit names (SHGDN_NORMAL is the empty set).    *)
(* pref is the user's extension preference: hideFileExt (the HideFileExt   *)
(* value of the Explorer\Advanced key is non-zero) and neverShow (the      *)
(* extensions whose class key has a NeverShowExt value).                   *)
(***************************************************************************)
SHGDN_NORMAL == {}
SHGDN_INFOLDER == "SHGDN_INFOLDER"
SHGDN_FOREDITING == "SHGDN_FOREDITING"
SHGDN_FORADDRESSBAR == "SHGDN_FORADDRESSBAR"
SHGDN_FORPARSING == "SHGDN_FORPARSING"

\* the high byte (format) and the low byte (relation) of the flags
GET_SHGDN_FOR(dwFlags) ==
    dwFlags \cap {SHGDN_FOREDITING, SHGDN_FORADDRESSBAR, SHGDN_FORPARSING}
GET_SHGDN_RELATION(dwFlags) == dwFlags \cap {SHGDN_INFOLDER}

\* the folder object with its target path, which may be unset (NULL)
FolderAt(hasPath, path) ==
    [hasRoot |-> TRUE, hasPath |-> hasPath, sPathTarget |-> path]

PathRemoveExtensionW(s) ==
    IF LastDot(s) = 0 THEN s ELSE SubSeq(s, 1, LastDot(s) - 1)

SHELL_FS_HideExtension(szPath, pref) ==
    IF pref.hideFileExt THEN TRUE
    ELSE /\ PathFindExtensionW(szPath) # <<>>
         /\ \E e \in pref.neverShow : wcsicmp(e, PathFindExtensionW(szPath)) = 0

\* the test of the first character left out
SHELL_FS_ProcessDisplayFilename_NoDotTest(szPath, dwFlags, pref) ==
    IF SHGDN_FORPARSING \notin dwFlags
         /\ (SHGDN_INFOLDER \in dwFlags \/ dwFlags = SHGDN_NORMAL)
    THEN IF SHELL_FS_HideExtension(szPath, pref)
         THEN PathRemoveExtensionW(szPath) ELSE szPath
    ELSE szPath

SHELL_FS_ProcessDisplayFilename(szPath, dwFlags, pref) ==
    IF SHGDN_FORPARSING \notin dwFlags
         /\ (SHGDN_INFOLDER \in dwFlags \/ dwFlags = SHGDN_NORMAL)
    THEN IF SHELL_FS_HideExtension(szPath, pref) /\ CharAt(szPath, 1) # 46
         THEN PathRemoveExtensionW(szPath) ELSE szPath
    ELSE szPath

\* the in-folder test left out
WantsFullPath_AnyRelation(self, dwFlags) ==
    SHGDN_FORPARSING \in GET_SHGDN_FOR(dwFlags) /\ self.hasPath

\* a parsing name that is not relative to the folder, of a folder with a path
WantsFullPath(self, dwFlags) ==
    /\ SHGDN_FORPARSING \in GET_SHGDN_FOR(dwFlags)
    /\ GET_SHGDN_RELATION(dwFlags) # {SHGDN_INFOLDER}
    /\ self.hasPath

\* the name stored in a simple item
_ILSimpleGetTextW(pidl) == IF HasFileStructW(pidl) THEN pidl.name ELSE <<>>

\* a: [strRetNull, pidl, dwFlags]; pidl is the empty list or a single item
GetDisplayNameOf(self, a, pref) ==
    IF a.strRetNull THEN [hr |-> E_INVALIDARG, text |-> <<>>]
    ELSE IF Len(a.pidl.list) = 0
    THEN IF WantsFullPath(self, a.dwFlags)
         THEN [hr |-> S_OK, text |-> self.sPathTarget]
         ELSE [hr |-> E_INVALIDARG, text |-> <<>>]
    ELSE LET pidl == a.pidl.list[1]
             prefix == IF WantsFullPath(self, a.dwFlags)
                          THEN PathAddBackslashW(self.sPathTarget) ELSE <<>>
             pszPath == prefix \o _ILSimpleGetTextW(pidl)
         IN  [hr |-> S_OK,
              text |-> IF ~_ILIsFolder(pidl)
                          THEN SHELL_FS_ProcessDisplayFilename(pszPath,
                                                               a.dwFlags, pref)
                          ELSE pszPath]

(***************************************************************************)
(* Specification of one GetDisplayNameOf call.                             *)
(***************************************************************************)
Str_dot_x == <<46, 120>>             \* ".x"
Str_dot_txt == <<46, 116, 120, 116>> \* ".txt"

NamePidls ==
    { Pidl(PT_FOLDER, n, {FILE_ATTRIBUTE_DIRECTORY}, DW(0, 0), 1, 1, 0) :
        n \in {Str_Sub, Str_A_x} }
    \cup { Pidl(PT_VALUE, n, {}, DW(0, 10), 1, 1, 0) :
             n \in {Str_Doc_txt, Str_A_x, Str_dot_x, Str_NoExt} }

Preferences ==
    [hideFileExt : BOOLEAN, neverShow : {{}, {Str_dot_txt}, {Str_dot_x}}]

NameArgs ==
    [op : {"GetDisplayNameOf"},
     self : {FolderAt(h, Str_Path) : h \in BOOLEAN},
     strRetNull : BOOLEAN,
     pidl : {List(<<>>)} \cup {List(<<p>>) : p \in NamePidls},
     dwFlags : SUBSET {SHGDN_INFOLDER, SHGDN_FOREDITING, SHGDN_FORADDRESSBAR,
                       SHGDN_FORPARSING},
     pref : Preferences]

InitName ==
    /\ pc = "start"
    /\ args \in NameArgs
    /\ ret = [op |-> "none"]
    /\ dir = <<>>
    /\ enum = NoEnum
    /\ nmut = 0
    /\ sink = <<>>

GetDisplayNameOfCall ==
    /\ pc = "start"
    /\ args.op = "GetDisplayNameOf"
    /\ pc' = "done"
    /\ ret' = [op |-> "GetDisplayNameOf",
               r |-> GetDisplayNameOf(args.self, args, args.pref)]
    /\ UNCHANGED <<args, dir, enum, nmut, sink>>

NextName == GetDisplayNameOfCall

SpecName == InitName /\ [][NextName]_vars

NameDone == pc = "done" /\ ret.op = "GetDisplayNameOf" /\ ~args.strRetNull

NameOfEmptyId == NameDone /\ Len(args.pidl.list) = 0

NameOfItem == NameDone /\ Len(args.pidl.list) = 1

\* C18 as stated: DisplayName of the empty identifier returns the folder's
\* resolved path for every parsing-format request and InvalidArgument for
\* every other format.
C18_EmptyIdParsing ==
    NameOfEmptyId =>
        /\ SHGDN_FORPARSING \in args.dwFlags =>
              ret.r.hr = S_OK /\ ret.r.text = args.self.sPathTarget
        /\ SHGDN_FORPARSING \notin args.dwFlags => ret.r.hr = E_INVALIDARG

\* C18: DisplayName of the empty identifier returns the folder's resolved
\* path for every parsing-format request that is not in-folder relative,
\* made to a folder that has a resolved path, and InvalidArgument for every
\* other request.
C18_EmptyIdFullParsing ==
    NameOfEmptyId =>
        IF /\ SHGDN_FORPARSING \in args.dwFlags
           /\ SHGDN_INFOLDER \notin args.dwFlags
           /\ args.self.hasPath
        THEN ret.r.hr = S_OK /\ ret.r.text = args.self.sPathTarget
        ELSE ret.r.hr = E_INVALIDARG

C18_Witness ==
    /\ NameOfEmptyId
    /\ args.dwFlags = {SHGDN_FORPARSING}
    /\ args.self.hasPath
    /\ ret.r = [hr |-> S_OK, text |-> Str_Path]

\* the hide-extension preference applies to the extension of the name
HideApplies(name, pref) ==
    \/ pref.hideFileExt
    \/ \E e \in pref.neverShow : wcsicmp(e, PathFindExtensionW(name)) = 0

\* C19: DisplayName of a single item removes the extension only if the item
\* is not a folder, the request is not parsing-format, the hide preference
\* applies to the extension and the name does not start with a dot; names
\* of folders, parsing-format names and names starting with a dot are
\* returned as stored (after the folder's path when a full parsing name is
\* asked).  Doc.txt with hiding on, asked in the normal format, is "Doc".
C19_ExtensionHiding ==
    NameOfItem =>
        LET pidl == args.pidl.list[1]
            name == pidl.name
            plain == (IF /\ SHGDN_FORPARSING \in args.dwFlags
                         /\ SHGDN_INFOLDER \notin args.dwFlags
                         /\ args.self.hasPath
                      THEN PathAddBackslashW(args.self.sPathTarget)
                      ELSE <<>>) \o name
        IN  /\ ret.r.hr = S_OK
            /\ ret.r.text # plain =>
                  /\ ~_ILIsFolder(pidl)
                  /\ SHGDN_FORPARSING \notin args.dwFlags
                  /\ HideApplies(name, args.pref)
                  /\ name[1] # 46
                  /\ ret.r.text \o PathFindExtensionW(name) = name
            /\ ( \/ _ILIsFolder(pidl)
                 \/ SHGDN_FORPARSING \in args.dwFlags
                 \/ name[1] = 46 ) => ret.r.text = plain
            /\ ( /\ name = Str_Doc_txt /\ ~_ILIsFolder(pidl)
                 /\ HideApplies(name, args.pref)
                 /\ args.dwFlags = SHGDN_NORMAL )
               => ret.r.text = <<68, 111, 99>>

C19_Witness ==
    /\ NameOfItem
    /\ args.pidl.list[1].name = Str_Doc_txt
    /\ _ILIsValue(args.pidl.list[1])
    /\ ~args.pref.hideFileExt /\ args.pref.neverShow = {Str_dot_txt}
    /\ args.dwFlags = SHGDN_NORMAL
    /\ ret.r = [hr |-> S_OK, text |-> <<68, 111, 99>>]

(***************************************************************************)
(* CFSFolder::SetNameOf                                                    *)
(* The file system is the set of [path, wfd] records in dir; the change    *)
(* notifications sent are appended to sink.                                *)
(***************************************************************************)
MaxRename == 2      \* SetNameOf calls per behaviour

SHCNE_RENAMEITEM == "SHCNE_RENAMEITEM"
SHCNE_RENAMEFOLDER == "SHCNE_RENAMEFOLDER"

\* index of the last separator of s, 0 when there is none
LastSeparator(s) ==
    LET seps == {i \in 1..Len(s) : IsSeparator(s[i])}
    IN  IF seps = {} THEN 0 ELSE CHOOSE i \in seps : \A j \in seps : j <= i

PathParent(s) == SubSeq(s, 1, LastSeparator(s) - 1)
PathLeaf(s) == SubSeq(s, LastSeparator(s) + 1, Len(s))

\* the directory a path lies in exists: the folder itself or a directory
DirectoryExists(fs, root, path) ==
    \/ wcsicmp(path, root) = 0
    \/ \E e \in FindFirstFileW(fs, path) :
           FILE_ATTRIBUTE_DIRECTORY \in e.wfd.dwFileAttributes

\* MoveFileW: the source must exist, the destination must not (unless it is
\* the source under another spelling) and must lie in an existing directory;
\* permitted tells whether the file system allows the move
MoveFileW(fs, root, szSrc, szDest, permitted) ==
    LET from == FindFirstFileW(fs, szSrc)
        ok == /\ permitted
              /\ from # {}
              /\ LastSeparator(szDest) > 0
              /\ PathLeaf(szDest) # <<>>
              /\ DirectoryExists(fs, root, PathParent(szDest))
              /\ FindFirstFileW(fs, szDest) = {} \/ wcsicmp(szSrc, szDest) = 0
    IN  [ok |-> ok,
         fs |-> IF ok
                THEN (fs \ from) \cup
                     { FsEntry(szDest,
                               [e.wfd EXCEPT !.cFileName = PathLeaf(szDest)]) :
                         e \in from }
                ELSE fs]

\* the identifier for a path, or the failure of building it (createFails:
\* the allocation fails although the path exists)
RenameCreatePidl(fs, szPath, createFails) ==
    IF createFails /\ FindFirstFileW(fs, szPath) # {}
    THEN [hr |-> E_OUTOFMEMORY, pidl |-> NullList]
    ELSE _ILCreateFromPathW(fs, szPath)

RenameSource(self, pidl) == PathCombineW(self.sPathTarget, pidl.name)

\* the destination before the hidden extension is put back
RenameDestBase(self, lpName, dwFlags) ==
    IF dwFlags = SHGDN_NORMAL \/ SHGDN_INFOLDER \in dwFlags
    THEN PathCombineW(self.sPathTarget, lpName)
    ELSE lpName

RenameDest(self, pidl, lpName, dwFlags, pref) ==
    LET szSrc == RenameSource(self, pidl)
        szDest == RenameDestBase(self, lpName, dwFlags)
    IN  IF SHGDN_FORPARSING \notin dwFlags
             /\ SHELL_FS_HideExtension(szSrc, pref)
             /\ PathFindExtensionW(szSrc) # <<>>
        THEN szDest \o PathFindExtensionW(szSrc)
        ELSE szDest

\* the comparison left out: every call goes on to MoveFileW
RenameSamePath_Never(szSrc, szDest) == FALSE

\* !wcscmp(szSrc, szDest)
RenameSamePath(szSrc, szDest) == strcmpW(szSrc, szDest) = 0

Notification(event, szSrc, szDest) ==
    [event |-> event, src |-> szSrc, dest |-> szDest]

RenameResult(hr, pidlOut, szSrc, szDest, moved, fs, notes) ==
    [hr |-> hr, pidlOut |-> pidlOut, szSrc |-> szSrc, szDest |-> szDest,
     moved |-> moved, fs |-> fs, notes |-> notes]

\* every rename announced as an item rename
RenameEvent_AlwaysItem(bIsFolder) == SHCNE_RENAMEITEM

\* bIsFolder ? SHCNE_RENAMEFOLDER : SHCNE_RENAMEITEM
RenameEvent(bIsFolder) ==
    IF bIsFolder THEN SHCNE_RENAMEFOLDER ELSE SHCNE_RENAMEITEM

\* a rename that was carried out reported as a success
RenameMovedReturn_Ok(hr) == S_OK

\* what SetNameOf returns after MoveFileW succeeded: the result of building
\* the identifier (S_OK when none was asked for)
RenameMovedReturn(hr) == hr

\* a: [pidl, lpName, dwFlags, pPidlOutGiven]; env: [pref, permitted,
\* createFails]; the result carries the paths computed, the file system
\* after the call and the notifications sent by it
SetNameOf(self, a, fs, env) ==
    IF ~HasFileStructW(a.pidl)
    THEN RenameResult(E_INVALIDARG, NullList, <<>>, <<>>, FALSE, fs, <<>>)
    ELSE
    LET bIsFolder == _ILIsFolder(a.pidl)
        szSrc == RenameSource(self, a.pidl)
        szDest == RenameDest(self, a.pidl, a.lpName, a.dwFlags, env.pref)
        made(fs2) == IF a.pPidlOutGiven
                        THEN RenameCreatePidl(fs2, szDest, env.createFails)
                        ELSE [hr |-> S_OK, pidl |-> NullList]
        mv == MoveFileW(fs, self.sPathTarget, szSrc, szDest, env.permitted)
    IN  IF RenameSamePath(szSrc, szDest)
        THEN RenameResult(made(fs).hr, made(fs).pidl, szSrc, szDest, FALSE,
                          fs, <<>>)
        ELSE IF mv.ok
        THEN RenameResult(RenameMovedReturn(made(mv.fs).hr), made(mv.fs).pidl,
                          szSrc, szDest, TRUE, mv.fs,
                          <<Notification(RenameEvent(bIsFolder),
                                         szSrc, szDest)>>)
        ELSE RenameResult(E_FAIL, NullList, szSrc, szDest, FALSE, fs, <<>>)

(***************************************************************************)
(* Specification of a client renaming items of the folder at Str_Path.     *)
(***************************************************************************)
Str_Doc == <<68, 111, 99>>
Str_New == <<78, 101, 119>>

\* C:\D with Doc.txt, README (files) and Sub (directory)
FsRenameStart ==
    { FsEntry(Under(<<Str_Doc_txt>>), FileData(Str_Doc_txt)),
      FsEntry(Under(<<Str_NoExt>>), FileData(Str_NoExt)),
      FsEntry(Under(<<Str_Sub>>), DirData(Str_Sub, {})) }

\* items of the folder, one of them (A.x) no longer on disk
RenamePidls ==
    { _ILCreateFromFindDataW(w) :
        w \in {FileData(Str_Doc_txt), FileData(Str_NoExt),
               DirData(Str_Sub, {}), FileData(Str_A_x)} }

RenameNames ==
    {Str_Doc, Str_Doc_txt, Str_New, Str_Sub,
     Under(<<Str_Doc_txt>>), Under(<<Str_New>>)}

RenameFlags ==
    {SHGDN_NORMAL, {SHGDN_INFOLDER}, {SHGDN_FORPARSING},
     {SHGDN_FORPARSING, SHGDN_INFOLDER}, {SHGDN_FOREDITING}}

RenameEnvs ==
    [pref : {p \in Preferences : p.neverShow # {Str_dot_x}
                                   /\ ~(p.hideFileExt /\ p.neverShow # {})},
     permitted : BOOLEAN, createFails : BOOLEAN]

\* what stays the same while a client renames: the flags it passes, the
\* user's preference and the behaviour of the file system and the allocator
RenameSessions == [op : {"none"}, dwFlags : RenameFlags, env : RenameEnvs]

InitRename ==
    /\ pc = "idle"
    /\ args \in RenameSessions
    /\ ret = [op |-> "none"]
    /\ dir = FsRenameStart
    /\ enum = NoEnum
    /\ nmut = 0
    /\ sink = <<>>

SetNameOfCall ==
    /\ nmut < MaxRename
    /\ \E pidl \in RenamePidls, lpName \in RenameNames, out \in BOOLEAN :
          LET a == [op |-> "SetNameOf", pidl |-> pidl, lpName |-> lpName,
                    dwFlags |-> args.dwFlags, pPidlOutGiven |-> out,
                    env |-> args.env]
          IN  \E r \in {SetNameOf(FolderAt(TRUE, Str_Path), a, dir, a.env)} :
                  /\ args' = a
                  /\ ret' = [op |-> "SetNameOf", r |-> r]
                  /\ dir' = r.fs
                  /\ sink' = sink \o r.notes
    /\ nmut' = nmut + 1
    /\ UNCHANGED <<pc, enum>>

NextRename == SetNameOfCall

SpecRename == InitRename /\ [][NextRename]_vars

\* C20: a Rename whose computed destination path equals its source path
\* renames nothing in the file system and sends no notification, however
\* often it is repeated; the identifier it returns denotes the source path,
\* and it returns one whenever one is asked for and can be built for the
\* path.
C20_SamePathNoOp ==
    [][ (nmut' = nmut + 1 /\ HasFileStructW(args'.pidl)
           /\ ret'.r.szSrc = ret'.r.szDest) =>
          /\ dir' = dir
          /\ sink' = sink
          /\ ~ret'.r.pidlOut.null =>
                /\ ret'.r.hr = S_OK
                /\ wcsicmp(RenameSource(FolderAt(TRUE, Str_Path),
                                        ret'.r.pidlOut.list[1]),
                           ret'.r.szSrc) = 0
          /\ ~args'.pPidlOutGiven => ret'.r.hr = S_OK
          /\ ( /\ args'.pPidlOutGiven /\ ~args'.env.createFails
               /\ FindFirstFileW(dir, ret'.r.szSrc) # {} )
             => ret'.r.hr = S_OK /\ ~ret'.r.pidlOut.null ]_vars

\* the same no-op rename of Doc.txt (typed as the displayed "Doc" while the
\* extension is hidden) made twice
C20_Witness ==
    /\ nmut = 2
    /\ ret.op = "SetNameOf"
    /\ args.pidl.name = Str_Doc_txt
    /\ args.lpName = Str_Doc /\ args.dwFlags = SHGDN_NORMAL
    /\ args.env.pref.hideFileExt
    /\ ret.r.szSrc = ret.r.szDest
    /\ ret.r.hr = S_OK
    /\ ret.r.pidlOut = List(<<_ILCreateFromFindDataW(FileData(Str_Doc_txt))>>)
    /\ dir = FsRenameStart
    /\ sink = <<>>

RenameDone == ret.op = "SetNameOf" /\ HasFileStructW(args.pidl)

\* the call compared two different paths and went on to MoveFileW
RenameStep ==
    /\ nmut' = nmut + 1
    /\ HasFileStructW(args'.pidl)
    /\ ret'.r.szSrc # ret'.r.szDest

\* C21: the source name's extension is appended to the destination only
\* when it was being hidden (request not parsing-format, hide preference in
\* force) and the destination given carries no extension; a destination that
\* has an extension is used as given.
C21_ExtensionOnlyIfMissing ==
    RenameDone =>
        LET base == RenameDestBase(FolderAt(TRUE, Str_Path), args.lpName,
                                   args.dwFlags)
            szSrc == ret.r.szSrc
        IN  /\ ret.r.szDest # base =>
                  /\ SHGDN_FORPARSING \notin args.dwFlags
                  /\ HideApplies(szSrc, args.env.pref)
                  /\ PathFindExtensionW(base) = <<>>
                  /\ ret.r.szDest = base \o PathFindExtensionW(szSrc)
            /\ PathFindExtensionW(base) # <<>> => ret.r.szDest = base

\* C22: when the paths differ and the file system carries out the rename,
\* exactly one notification is sent, with the old and the new full path,
\* tagged SHCNE_RENAMEFOLDER for a folder item and SHCNE_RENAMEITEM
\* otherwise; when the file system refuses, the call returns E_FAIL, sends
\* no notification and hands out no identifier.
C22_RenameNotification ==
    [][ RenameStep =>
          IF dir' # dir
          THEN /\ ret'.r.moved
               /\ sink' = Append(sink,
                     Notification(IF _ILIsFolder(args'.pidl)
                                     THEN SHCNE_RENAMEFOLDER
                                     ELSE SHCNE_RENAMEITEM,
                                  PathCombineW(Str_Path, args'.pidl.name),
                                  ret'.r.szDest))
          ELSE /\ ~ret'.r.moved
               /\ ret'.r.hr = E_FAIL
               /\ sink' = sink
               /\ ret'.r.pidlOut = NullList ]_vars

\* the directory Sub renamed to New
C22_Witness ==
    /\ RenameDone
    /\ args.pidl.name = Str_Sub /\ _ILIsFolder(args.pidl)
    /\ args.lpName = Str_New
    /\ ret.r.moved
    /\ FindFirstFileW(dir, Under(<<Str_New>>)) # {}
    /\ FindFirstFileW(dir, Under(<<Str_Sub>>)) = {}
    /\ sink = <<Notification(SHCNE_RENAMEFOLDER, Under(<<Str_Sub>>),
                             Under(<<Str_New>>))>>

\* C29: when the file system carries out the rename but the identifier for
\* the new path cannot be built, the call returns that failure although the
\* file system has changed and the notification has been sent.
C29_FailureAfterRename ==
    [][ ( /\ RenameStep
          /\ dir' # dir
          /\ args'.pPidlOutGiven /\ args'.env.createFails ) =>
          /\ FAILED(ret'.r.hr)
          /\ ret'.r.hr = E_OUTOFMEMORY
          /\ ret'.r.pidlOut = NullList
          /\ FindFirstFileW(dir', ret'.r.szDest) # {}
          /\ Len(sink') = Len(sink) + 1 ]_vars

C29_Witness ==
    /\ RenameDone
    /\ nmut = 1
    /\ args.pidl.name = Str_Doc_txt /\ args.lpName = Str_New
    /\ args.dwFlags = {SHGDN_FORPARSING, SHGDN_INFOLDER}
    /\ FAILED(ret.r.hr)
    /\ dir # FsRenameStart
    /\ FindFirstFileW(dir, Under(<<Str_New>>)) # {}
    /\ Len(sink) = 1


(***************************************************************************)
(* pNtEnumDevicesPnP: the interface list of a class is fetched with the    *)
(* size/allocate/get loop, then every interface of the list is opened and  *)
(* handed to the callback.  Init draws the interface list, which of its    *)
(* entries can be opened and whether a callback is given; the outcomes of  *)
(* the CM_* calls and of the allocation are chosen at each step.           *)
(***************************************************************************)
MaxIfaces == 3
MaxRetry == 2

STATUS_SUCCESS == 0
STATUS_UNSUCCESSFUL == -1073741823

NT_SUCCESS(Status) == Status >= 0

CR_SUCCESS == "CR_SUCCESS"
CR_FAILURE == "CR_FAILURE"
CR_OUT_OF_MEMORY == "CR_OUT_OF_MEMORY"
CR_BUFFER_SMALL == "CR_BUFFER_SMALL"

\* \\?\A, \??\B and \\?\ (four characters)
Iface_Win32 == <<92, 92, 63, 92, 65>>
Iface_Nt == <<92, 63, 63, 92, 66>>
Iface_Short == <<92, 92, 63, 92>>

\* a Win32-style interface path longer than its prefix is turned into an
\* NT-style one, in the list itself
NormalizeIface(name) ==
    IF /\ Len(name) > 4
       /\ name[1] = 92 /\ name[2] = 92 /\ name[3] = 63 /\ name[4] = 92
    THEN [name EXCEPT ![2] = 63]
    ELSE name

\* the callback run for every interface, opened or not
DoCallback_IgnoreStatus(Status, callbackGiven) == callbackGiven

\* NT_SUCCESS(Status) and Callback non-null
DoCallback(Status, callbackGiven) == NT_SUCCESS(Status) /\ callbackGiven

\* one pass of the do-while loop: the size query, the allocation, the list
\* query; the list when all three succeed
PnPFetch(crSize, allocOk, crList, ifaces) ==
    IF crSize # CR_SUCCESS THEN [cr |-> crSize, list |-> <<>>]
    ELSE IF ~allocOk THEN [cr |-> CR_OUT_OF_MEMORY, list |-> <<>>]
    ELSE IF crList # CR_SUCCESS THEN [cr |-> crList, list |-> <<>>]
    ELSE [cr |-> CR_SUCCESS, list |-> ifaces]

IfaceNames == {Iface_Win32, Iface_Nt, Iface_Short}

PnPArgs ==
    [op : {"pNtEnumDevicesPnP"},
     ifaces : SeqsUpTo(IfaceNames, MaxIfaces),
     opens : SUBSET (1..MaxIfaces),
     callbackGiven : BOOLEAN]

InitPnP ==
    /\ pc = "list"
    /\ args \in PnPArgs
    /\ ret = [op |-> "none"]
    /\ dir = <<>>
    /\ enum = [list |-> <<>>, pos |-> 0]
    /\ nmut = 0
    /\ sink = <<>>

\* one pass of the loop that fetches the list
PnPGetListPass ==
    /\ pc = "list"
    /\ \E crSize \in {CR_SUCCESS, CR_FAILURE}, allocOk \in BOOLEAN,
          crList \in {CR_SUCCESS, CR_BUFFER_SMALL, CR_FAILURE} :
          /\ crList = CR_BUFFER_SMALL => nmut < MaxRetry
          /\ LET f == PnPFetch(crSize, allocOk, crList, args.ifaces)
             IN  IF f.cr = CR_BUFFER_SMALL
                 THEN /\ nmut' = nmut + 1
                      /\ UNCHANGED <<pc, ret, enum>>
                 ELSE IF f.cr # CR_SUCCESS
                 THEN /\ pc' = "done"
                      /\ ret' = [op |-> "pNtEnumDevicesPnP",
                                 Status |-> STATUS_UNSUCCESSFUL]
                      /\ UNCHANGED <<enum, nmut>>
                 ELSE /\ pc' = "loop"
                      /\ enum' = [list |-> f.list, pos |-> 1]
                      /\ UNCHANGED <<ret, nmut>>
    /\ UNCHANGED <<args, dir, sink>>

\* one pass of the for loop: normalise, open, call back, close
PnPVisit ==
    /\ pc = "loop"
    /\ enum.pos <= Len(enum.list)
    /\ LET name == NormalizeIface(enum.list[enum.pos])
           Status == IF enum.pos \in args.opens THEN STATUS_SUCCESS
                                                ELSE STATUS_UNSUCCESSFUL
       IN  /\ enum' = [list |-> [enum.list EXCEPT ![enum.pos] = name],
                       pos |-> enum.pos + 1]
           /\ sink' = IF DoCallback(Status, args.callbackGiven)
                         THEN Append(sink, [iface |-> name, pos |-> enum.pos])
                         ELSE sink
    /\ UNCHANGED <<pc, args, ret, dir, nmut>>

\* the end of the list is met
PnPReturn ==
    /\ pc = "loop"
    /\ enum.pos > Len(enum.list)
    /\ pc' = "done"
    /\ ret' = [op |-> "pNtEnumDevicesPnP", Status |-> STATUS_SUCCESS]
    /\ UNCHANGED <<args, dir, enum, nmut, sink>>

NextPnP == PnPGetListPass \/ PnPVisit \/ PnPReturn

SpecPnP == InitPnP /\ [][NextPnP]_vars

PnPSucceeded ==
    pc = "done" /\ ret.op = "pNtEnumDevicesPnP" /\ ret.Status = STATUS_SUCCESS

\* the positions 1..n of the list that can be opened, in order
RECURSIVE OpenedUpTo(_)
OpenedUpTo(n) ==
    IF n = 0 THEN <<>>
    ELSE OpenedUpTo(n - 1) \o (IF n \in args.opens THEN <<n>> ELSE <<>>)

MaxInit == 2
CSIDL_NONE == -1

\* no special folder, and one special folder
CsidlSamples == {CSIDL_NONE, 5}

\* C:\S, the path of the special folder
Str_Special == <<67, 58, 92, 83>>

FolderObject(root, path) == [pidlRoot |-> root, sPathTarget |-> path]

\* NULL for NULL and when no memory is to be had
ILClone(pidl, memOk) == IF pidl.null \/ ~memOk THEN NullList ELSE pidl

\* the path of a one-item list below C:\D, when items resolve
SHGetPathFromIDListW(pidl, resolves) ==
    IF pidl.null \/ ~resolves THEN [ok |-> FALSE, path |-> <<>>]
    ELSE [ok |-> TRUE, path |-> PathCombineW(Str_Path, pidl.list[1].name)]

SHGetSpecialFolderPathW(csidl, resolves) ==
    IF resolves THEN [ok |-> TRUE, path |-> Str_Special]
    ELSE [ok |-> FALSE, path |-> <<>>]

\* sPathTarget = SHAlloc(...); if (!sPathTarget) return E_OUTOFMEMORY; memcpy
InitCopyPath(root, path, allocOk) ==
    IF ~allocOk
    THEN [hr |-> E_OUTOFMEMORY, self |-> FolderObject(root, NullText)]
    ELSE [hr |-> S_OK, self |-> FolderObject(root, Text(path))]

\* env: [cloneOk, resolves, allocOk]
CFSFolder_Initialize(self, pidl, env) ==
    LET root == ILClone(pidl, env.cloneOk)
        p == SHGetPathFromIDListW(pidl, env.resolves)
    IN  IF p.ok
        THEN InitCopyPath(root, p.path, env.allocOk)
        ELSE [hr |-> S_OK, self |-> FolderObject(root, NullText)]

NoTargetInfo == [null |-> TRUE, csidl |-> CSIDL_NONE,
                 szTargetParsingName |-> <<>>, pidlTargetFolder |-> NullList]
TargetInfo(csidl, name, pidl) ==
    [null |-> FALSE, csidl |-> csidl, szTargetParsingName |-> name,
     pidlTargetFolder |-> pidl]

\* return (sPathTarget) ? S_OK : E_FAIL, after a copy that did not fail
InitExReturn(r) ==
    IF FAILED(r.hr) THEN r
    ELSE [r EXCEPT !.hr = IF r.self.sPathTarget.null THEN E_FAIL ELSE S_OK]

CFSFolder_InitializeEx(self, pidlRootx, ppfti, env) ==
    LET root == ILClone(pidlRootx, env.cloneOk)
        none == [hr |-> S_OK, self |-> FolderObject(root, NullText)]
        special == SHGetSpecialFolderPathW(ppfti.csidl, env.resolves)
        target == SHGetPathFromIDListW(ppfti.pidlTargetFolder, env.resolves)
    IN  InitExReturn(
          IF ppfti.null THEN none
          ELSE IF ppfti.csidl # CSIDL_NONE
          THEN (IF special.ok
                   THEN InitCopyPath(root, special.path, env.allocOk)
                   ELSE none)
          ELSE IF ppfti.szTargetParsingName # <<>>
          THEN InitCopyPath(root, ppfti.szTargetParsingName, env.allocOk)
          ELSE IF ~ppfti.pidlTargetFolder.null
          THEN (IF target.ok
                   THEN InitCopyPath(root, target.path, env.allocOk)
                   ELSE none)
          ELSE none)

InitPidls ==
    {List(<<Pidl(PT_FOLDER, n, {FILE_ATTRIBUTE_DIRECTORY}, DW(0, 0), 1, 1, 0)>>) :
        n \in {Str_Sub, Str_Hid}}

InitEnvs == [cloneOk : BOOLEAN, resolves : BOOLEAN, allocOk : BOOLEAN]

TargetInfos ==
    {NoTargetInfo}
    \cup {TargetInfo(c, n, p) : c \in CsidlSamples,
                                n \in {<<>>, Str_Path},
                                p \in {NullList} \cup InitPidls}

\* the object as a first Initialize on Sub left it
InitObject ==
    /\ pc = "idle"
    /\ args = [op |-> "none"]
    /\ ret = [op |-> "none"]
    /\ dir = <<>>
    /\ enum \in {CFSFolder_Initialize(FolderObject(NullList, NullText), p,
                    [cloneOk |-> TRUE, resolves |-> TRUE,
                     allocOk |-> TRUE]).self : p \in InitPidls}
    /\ nmut = 0
    /\ sink = <<>>

InitializeCall ==
    /\ nmut < MaxInit
    /\ \E pidl \in InitPidls, env \in InitEnvs :
          LET r == CFSFolder_Initialize(enum, pidl, env)
          IN  /\ args' = [op |-> "Initialize", pidl |-> pidl, env |-> env]
              /\ ret' = [op |-> "Initialize", hr |-> r.hr]
              /\ enum' = r.self
    /\ nmut' = nmut + 1
    /\ UNCHANGED <<pc, dir, sink>>

InitializeExCall ==
    /\ nmut < MaxInit
    /\ \E pidl \in InitPidls, ppfti \in TargetInfos, env \in InitEnvs :
          LET r == CFSFolder_InitializeEx(enum, pidl, ppfti, env)
          IN  /\ args' = [op |-> "InitializeEx", pidl |-> pidl,
                          ppfti |-> ppfti, env |-> env]
              /\ ret' = [op |-> "InitializeEx", hr |-> r.hr]
              /\ enum' = r.self
    /\ nmut' = nmut + 1
    /\ UNCHANGED <<pc, dir, sink>>

NextInit == InitializeCall \/ InitializeExCall

SpecInit == InitObject /\ [][NextInit]_vars

\* C23: when Initialize or InitializeEx fails on an object that has a root
\* list and a target path, both are what they were before the call.
C23_ReinitAtomic ==
    [][ ( /\ nmut' = nmut + 1
          /\ ~enum.pidlRoot.null /\ ~enum.sPathTarget.null
          /\ FAILED(ret'.hr) ) =>
          /\ enum'.pidlRoot = enum.pidlRoot
          /\ enum'.sPathTarget = enum.sPathTarget ]_vars

====
